---- MODULE Spec2Model ----
(***************************************************************************)
(* Model of the big-trade analysis engine (src/big_trade_analyzer.py):     *)
(* BigTradeAnalyzer.load_data, analyze_big_trades, analyze_single_stock    *)
(* and get_stock_name.                                                     *)
(*                                                                         *)
(* Conventions.                                                            *)
(*  - A Python string is a tuple of one-character strings, so that         *)
(*    startswith and split are computed and not assumed.                   *)
(*  - A decimal number is an integer counting hundredths: a corrected      *)
(*    price p stands for p/100 yuan, a Volume_Hand v for v/100 lots, an    *)
(*    Amount a for a/100 yuan.  Thresholds are whole lots and whole yuan,  *)
(*    as the callers pass them, and are scaled by 100 when compared.       *)
(*  - The market names are written in ASCII: "All" = 全部股票,              *)
(*    "SH" = 沪市主板, "STAR" = 科创板, "SZ" = 深市主板, "GEM" = 创业板.      *)
(*    The logic labels: "and" = 与and, "or" = 或or, "ignore" = 不考虑,      *)
(*    "only" = 只考虑, "other" = any other label.                           *)
(***************************************************************************)
EXTENDS Integers, Sequences, FiniteSets, TLC

\* ------------------------------------------------------------------ bounds
\* Largest number of CSV files in the data directory.
MaxFiles == 3
\* The sample size given to the constructor is 0 (load everything) or this.
MaxSample == 4
\* Largest sample size and largest number of main-board files of one
\* exchange in the quota computation taken on its own.
MaxTarget == 44
MaxPopulation == 15
MaxRows == 2
MaxLines == 2
\* The number of steps of the progress loop taken on its own.
LargeTotal == 1001

\* ----------------------------------------------------------------- strings
StartsWith(s, p) == Len(s) >= Len(p) /\ SubSeq(s, 1, Len(p)) = p

Range(s) == {s[i] : i \in 1..Len(s)}

\* The keys of market_data in the order the constructor inserts them.
Markets == <<"All", "SH", "STAR", "SZ", "GEM">>
MarketSet == Range(Markets)
\* The keys of market_files in load_data.
RealMarkets == {"SH", "SZ", "GEM", "STAR"}

\* -------------------------------------------------------------- file pool
\* A file of the data directory: the '_'-separated tokens of its name
\* without ".csv", whether it has the three required columns, and its rows
\* as read (Price is the raw integer, price * 100; Volume is in shares).
Row(p, v, s) == [Price |-> p, Volume |-> v, Side |-> s]

TokDeal == <<"d", "e", "a", "l">>
TokDay == <<"2", "0", "2", "5", "1", "2", "3", "1">>

\* `unparseable` holds the <<row, column>> positions whose text is no
\* number; the rows carry a 0 there.
File(code, cols, rows) ==
    [parts |-> <<TokDeal, TokDay, code>>, cols |-> cols, rows |-> rows,
     unparseable |-> {}]

AllCols == {"Price", "Volume", "Side"}

\* Lots and yuan of the rows: 6000 shares at 10.00 are 60 lots and 60000
\* yuan; 4999 shares are 49.99 lots.
FileSTAR ==
    File(<<"6","8","8","9","8","1">>, AllCols,
         <<Row(1000, 6000, 0), Row(1000, 3000, 1)>>)
FileSH ==
    File(<<"6","0","0","0","0","0">>, AllCols,
         <<Row(1000, 6000, 0), Row(1000, 6000, 1)>>)
FileSZ ==
    File(<<"0","0","0","0","0","1">>, AllCols,
         <<Row(1200, 5000, 0), Row(1000, 5000, 0), Row(1500, 3999, 0),
           Row(1000, 4999, 1)>>)
FileGEM ==
    File(<<"3","0","0","7","5","0">>, AllCols,
         <<Row(1000, 4999, 0), Row(1000, 5000, 0), Row(1500, 4000, 0),
           Row(900, 6000, 0), Row(1000, 9000, 2), Row(1500, 4000, 1), Row(1000, 5000, 1),
           Row(800, 6000, 1), Row(833, 5999, 1), Row(1000, 6000, 1)>>)
FileBSE ==
    File(<<"8","3","0","7","9","9">>, AllCols, <<Row(1000, 7000, 1)>>)
FileNoSide ==
    File(<<"6","0","1","3","9","8">>, {"Price", "Volume"},
         <<Row(1000, 8000, 0)>>)

\* The Price of the second of three rows reads "abc".
FileBadPrice ==
    [File(<<"6","0","0","5","1","9">>, AllCols,
          <<Row(1000, 6000, 0), Row(0, 7000, 0), Row(1000, 8000, 1)>>)
        EXCEPT !.unparseable = {<<2, "Price">>}]

FilePool == {FileSTAR, FileSH, FileSZ, FileGEM, FileBSE, FileNoSide}

\* os.path.basename(...).replace('.csv', '').split('_')[-1]
StockCodeOf(f) == f.parts[Len(f.parts)]

\* Sequences over S without repetition, of length at most n.
RECURSIVE InjSeqs(_, _)
InjSeqs(S, n) ==
    IF n = 0 THEN {<<>>}
    ELSE LET shorter == InjSeqs(S, n - 1)
         IN shorter \cup
            {Append(p[1], p[2]) :
                p \in {p \in shorter \X S : p[2] \notin Range(p[1])}}

\* The listings a data directory can have: one file per instrument.
Listings == InjSeqs(FilePool, MaxFiles)

\* The directories load_data can be pointed at: "deal" exists and holds the
\* listing dir_files, "empty" exists and holds no CSV file, "nodir" does
\* not exist.
DirNames == {"deal", "empty", "nodir"}

SampleSizes == {0, MaxSample}

\* ---------------------------------------------------------------- messages
\* A call of progress_callback: the kind of the message and its arguments.
Msg(kind, code, a, b) == [kind |-> kind, code |-> code, a |-> a, b |-> b]
NoCode == <<>>

\* ------------------------------------------------------------ dictionaries
\* A dict is the sequence of its keys in insertion order.  The value of key
\* c in stock_data and in every market_data[m] is the one DataFrame object
\* frames[c], shared by all the dicts that hold it.
DictPut(d, k) == IF k \in Range(d) THEN d ELSE Append(d, k)

\* ------------------------------------------------------------- classifying
\* MisorderedGroupSegment is GroupSegment testing '6' before '68'.
MisorderedGroupSegment(stock_code) ==
    IF StartsWith(stock_code, <<"6">>) THEN "SH"
    ELSE IF StartsWith(stock_code, <<"6", "8">>) THEN "STAR"
    ELSE IF StartsWith(stock_code, <<"3">>) THEN "GEM"
    ELSE IF StartsWith(stock_code, <<"0">>) THEN "SZ"
    ELSE "none"

\* The market_files list a file is appended to ("none": to no list).
GroupSegment(stock_code) ==
    IF StartsWith(stock_code, <<"6", "8">>) THEN "STAR"
    ELSE IF StartsWith(stock_code, <<"6">>) THEN "SH"
    ELSE IF StartsWith(stock_code, <<"3">>) THEN "GEM"
    ELSE IF StartsWith(stock_code, <<"0">>) THEN "SZ"
    ELSE "none"

\* MisorderedIndexSegment is IndexSegment testing '6' before '68'.
MisorderedIndexSegment(stock_code) ==
    IF StartsWith(stock_code, <<"6">>) THEN "SH"
    ELSE IF StartsWith(stock_code, <<"6", "8">>) THEN "STAR"
    ELSE IF StartsWith(stock_code, <<"3">>) THEN "GEM"
    ELSE IF StartsWith(stock_code, <<"0">>) THEN "SZ"
    ELSE "none"

\* The market_data dict a loaded table is stored in, besides "All".
IndexSegment(stock_code) ==
    IF StartsWith(stock_code, <<"6", "8">>) THEN "STAR"
    ELSE IF StartsWith(stock_code, <<"6">>) THEN "SH"
    ELSE IF StartsWith(stock_code, <<"3">>) THEN "GEM"
    ELSE IF StartsWith(stock_code, <<"0">>) THEN "SZ"
    ELSE "none"

\* market_files after the grouping loop over csv_files.
RECURSIVE GroupFiles(_, _, _)
GroupFiles(csv_files, i, mf) ==
    IF i > Len(csv_files) THEN mf
    ELSE LET seg == GroupSegment(StockCodeOf(csv_files[i]))
         IN GroupFiles(csv_files, i + 1,
                       IF seg = "none" THEN mf
                       ELSE [mf EXCEPT ![seg] = Append(@, csv_files[i])])

EmptyMarketFiles == [m \in RealMarkets |-> <<>>]

\* ---------------------------------------------------------------- sampling
\* int(random_sample * 0.5), int(random_sample * 0.25): exact for every
\* non-negative integer.
MainboardCount(n) == n \div 2
GemCount(n) == n \div 4
StarCount(n) == n \div 4

\* Python floats are IEEE 754 doubles.  A positive double is a record
\* [bits, exp]: the binary digits of its significand, first digit first, at
\* most Precision of them significant, and the power of two they are scaled
\* by; the value is bits * 2^exp.  Zero has no digits.
Precision == 53

RECURSIVE IntToBits(_)
IntToBits(n) == IF n = 0 THEN <<>> ELSE Append(IntToBits(n \div 2), n % 2)

RECURSIVE BitsToInt(_)
BitsToInt(bits) ==
    IF Len(bits) = 0 THEN 0
    ELSE 2 * BitsToInt(SubSeq(bits, 1, Len(bits) - 1)) + bits[Len(bits)]

RECURSIVE Increment(_)
Increment(bits) ==
    IF Len(bits) = 0 THEN <<1>>
    ELSE IF bits[Len(bits)] = 0 THEN [bits EXCEPT ![Len(bits)] = 1]
    ELSE Append(Increment(SubSeq(bits, 1, Len(bits) - 1)), 0)

\* Round to nearest, ties to even: the first n digits of bits, the digits
\* after them (and `sticky`, a nonzero rest beyond the last digit) deciding.
RoundBits(bits, n, sticky) ==
    IF Len(bits) <= n THEN [bits |-> bits, dropped |-> 0]
    ELSE LET kept == SubSeq(bits, 1, n)
             rest == SubSeq(bits, n + 1, Len(bits))
             below == sticky \/ \E i \in 2..Len(rest) : rest[i] = 1
             up == rest[1] = 1 /\ (below \/ kept[n] = 1)
         IN [bits |-> IF up THEN Increment(kept) ELSE kept,
             dropped |-> Len(rest)]

\* The least k with a * 2^k >= b.
RECURSIVE NormShift(_, _)
NormShift(a, b) == IF a >= b THEN 0 ELSE 1 + NormShift(2 * a, b)

\* The first n binary digits of r / b for b <= r < 2b, and what is left.
RECURSIVE DivBits(_, _, _, _)
DivBits(r, b, n, bits) ==
    IF n = 0 THEN [bits |-> bits, rem |-> r]
    ELSE CHOOSE q \in
            {DivBits(s.r, b, n - 1, s.bits) :
                s \in {IF r >= b
                       THEN [r |-> 2 * (r - b), bits |-> Append(bits, 1)]
                       ELSE [r |-> 2 * r, bits |-> Append(bits, 0)]}} : TRUE

RECURSIVE Pow2(_)
Pow2(k) == IF k = 0 THEN 1 ELSE 2 * Pow2(k - 1)

\* a / b for integers 0 <= a <= b, b > 0: the correctly rounded quotient.
FloatDiv(a, b) ==
    IF a = 0 THEN [bits |-> <<>>, exp |-> 0]
    ELSE LET k == NormShift(a, b)
             q == DivBits(a * Pow2(k), b, Precision + 1, <<>>)
             r == RoundBits(q.bits, Precision, q.rem > 0)
         IN [bits |-> r.bits, exp |-> r.dropped - Precision - k]

\* bits * m for a small non-negative integer m, exactly.
RECURSIVE TimesFrom(_, _, _, _)
TimesFrom(bits, m, i, carry) ==
    IF i = 0 THEN IntToBits(carry)
    ELSE CHOOSE p \in
            {Append(TimesFrom(bits, m, i - 1, t \div 2), t % 2) :
                t \in {bits[i] * m + carry}} : TRUE

\* m * x for an integer m >= 0 and a double x: the correctly rounded product.
FloatTimes(m, x) ==
    IF m = 0 \/ Len(x.bits) = 0 THEN [bits |-> <<>>, exp |-> 0]
    ELSE LET r == RoundBits(TimesFrom(x.bits, m, Len(x.bits), 0),
                            Precision, FALSE)
         IN [bits |-> r.bits, exp |-> x.exp + r.dropped]

\* int(x) for a double x >= 0 below 2^31.
IntOf(x) ==
    IF x.exp >= 0 THEN BitsToInt(x.bits) * Pow2(x.exp)
    ELSE IF -x.exp >= Len(x.bits) THEN 0
    ELSE BitsToInt(SubSeq(x.bits, 1, Len(x.bits) + x.exp))

\* StaleProgressOf is ProgressOf computed before the count is advanced.
StaleProgressOf(processed, total) ==
    FloatTimes(100, FloatDiv(processed - 1, total))

\* progress = (processed_stocks / total_stocks) * 100 and
\* progress = (i + 1) / len(selected_files) * 100: a double.
ProgressOf(processed, total) == FloatTimes(100, FloatDiv(processed, total))

\* f"{progress:.1f}" as a number of tenths: the exact value of the double
\* times ten, rounded to the nearest integer, ties to even.
FormatTenths(x) ==
    IF Len(x.bits) = 0 THEN 0
    ELSE LET p == TimesFrom(x.bits, 10, Len(x.bits), 0)
         IN IF x.exp >= 0 THEN BitsToInt(p) * Pow2(x.exp)
            ELSE LET q == [i \in 1..(IF Len(p) > -x.exp THEN 0
                                     ELSE 1 - x.exp - Len(p)) |-> 0] \o p
                 IN BitsToInt(RoundBits(q, Len(q) + x.exp, FALSE).bits)

\* sh_mainboard_ratio = len(SH) / mainboard_total, a double, and
\* int(mainboard_count * sh_mainboard_ratio).
ShMainboardCount(mainboard_count, sh, sz) ==
    IF sh + sz > 0
    THEN IntOf(FloatTimes(mainboard_count, FloatDiv(sh, sh + sz)))
    ELSE 0

SzMainboardCount(mainboard_count, sh, sz) ==
    IF sh + sz > 0 THEN mainboard_count - ShMainboardCount(mainboard_count, sh, sz)
    ELSE 0

Min(a, b) == IF a < b THEN a ELSE b

\* SamplesWithRepeats is Samples drawing with replacement and without the
\* cap at the population.
SamplesWithRepeats(population, count) ==
    IF count > 0 /\ Len(population) > 0
    THEN [1..count -> Range(population)]
    ELSE {<<>>}

\* random.sample(population, min(count, len(population))) when count > 0,
\* nothing otherwise: every ordered choice of distinct elements.
Samples(population, count) ==
    IF count > 0
    THEN {q \in InjSeqs(Range(population), Min(count, Len(population))) :
             Len(q) = Min(count, Len(population))}
    ELSE {<<>>}

\* GroupedSelections is Selections whose full load takes the grouped lists
\* in place of csv_files.
GroupedSelections(csv_files, mf, n) ==
    IF n > 0
    THEN LET sh == Len(mf["SH"])
             sz == Len(mf["SZ"])
             mc == MainboardCount(n)
         IN {a \o b \o c \o d :
                a \in Samples(mf["SH"], ShMainboardCount(mc, sh, sz)),
                b \in Samples(mf["SZ"], SzMainboardCount(mc, sh, sz)),
                c \in Samples(mf["GEM"], GemCount(n)),
                d \in Samples(mf["STAR"], StarCount(n))}
    ELSE {mf["SH"] \o mf["SZ"] \o mf["GEM"] \o mf["STAR"]}

\* The values selected_files can take.
Selections(csv_files, mf, n) ==
    IF n > 0
    THEN LET sh == Len(mf["SH"])
             sz == Len(mf["SZ"])
             mc == MainboardCount(n)
         IN {a \o b \o c \o d :
                a \in Samples(mf["SH"], ShMainboardCount(mc, sh, sz)),
                b \in Samples(mf["SZ"], SzMainboardCount(mc, sh, sz)),
                c \in Samples(mf["GEM"], GemCount(n)),
                d \in Samples(mf["STAR"], StarCount(n))}
    ELSE {csv_files}

\* ----------------------------------------------------------------- loading
\* df['Price'] = (df['Price'] / 100).round(2): the raw integer divided by
\* 100 has at most two decimals, so in hundredths it is the raw integer.
CorrectedPrice(raw) == raw

\* df['Volume_Hand'] = df['Volume'] / 100, in hundredths of a lot.
VolumeHand(volume) == volume

\* The DataFrame load_data stores for a readable file with the required
\* columns.
LoadedFrame(f) ==
    [cols |-> f.cols \cup {"Volume_Hand"},
     rows |-> [i \in 1..Len(f.rows) |->
                  [Price |-> CorrectedPrice(f.rows[i].Price),
                   Volume |-> f.rows[i].Volume,
                   Side |-> f.rows[i].Side,
                   Volume_Hand |-> VolumeHand(f.rows[i].Volume)]]]

EmptyMarketData == [m \in MarketSet |-> <<>>]

\* The index after "清空旧数据".
ClearedIndex(msgs) ==
    [stock_data |-> <<>>, market_data |-> EmptyMarketData,
     frames |-> <<>>, msgs |-> msgs]

\* IndexWithoutAll is IndexFile without the store into market_data["All"].
IndexWithoutAll(st, f) ==
    LET stock_code == StockCodeOf(f)
        seg == IndexSegment(stock_code)
    IN [st EXCEPT
          !.stock_data = DictPut(@, stock_code),
          !.frames = (stock_code :> LoadedFrame(f)) @@ @,
          !.market_data = IF seg = "none" THEN @
                          ELSE [@ EXCEPT ![seg] = DictPut(@, stock_code)]]

\* Lines 347-361: the stores of one normalised table.
IndexFile(st, f) ==
    LET stock_code == StockCodeOf(f)
        seg == IndexSegment(stock_code)
        md == IF seg = "none" THEN st.market_data
              ELSE [st.market_data EXCEPT ![seg] = DictPut(@, stock_code)]
    IN [st EXCEPT
          !.stock_data = DictPut(@, stock_code),
          !.frames = (stock_code :> LoadedFrame(f)) @@ @,
          !.market_data = [md EXCEPT !["All"] = DictPut(@, stock_code)]]

\* What the try block does with file f: read_csv raises for the files of
\* `unreadable`, a file lacking a required column is passed over by
\* `continue`, a Price or Volume column with a text that is no number is
\* read as text and raises at the division by 100, any other file is
\* normalised and stored.
FileOutcome(f, unreadable) ==
    IF f \in unreadable THEN "raises"
    ELSE IF ~(AllCols \subseteq f.cols) THEN "continue"
    ELSE IF \E p \in f.unparseable : p[2] \in {"Price", "Volume"} THEN "raises"
    ELSE "stored"

\* The body of the loop over selected_files for the file at position i:
\* the progress message, then read_csv (which raises for the files of
\* `unreadable`), the column test and the stores.
LoadOneFile(st, sel, i, unreadable) ==
    LET f == sel[i]
        st1 == [st EXCEPT !.msgs =
                   Append(@, Msg("progress", StockCodeOf(f), i, Len(sel)))]
        outcome == FileOutcome(f, unreadable)
    IN IF outcome = "raises"
       THEN [st1 EXCEPT !.msgs =
                Append(@, Msg("file_error", StockCodeOf(f), 0, 0))]
       ELSE IF outcome = "continue" THEN st1
       ELSE IndexFile(st1, f)

\* AbortingLoadLoop is LoadLoop ending at the first file that raises.
RECURSIVE AbortingLoadLoop(_, _, _, _)
AbortingLoadLoop(st, sel, i, unreadable) ==
    IF i > Len(sel) THEN st
    ELSE IF FileOutcome(sel[i], unreadable) = "raises"
         THEN LoadOneFile(st, sel, i, unreadable)
         ELSE AbortingLoadLoop(LoadOneFile(st, sel, i, unreadable),
                               sel, i + 1, unreadable)

\* for i, file_path in enumerate(selected_files): ...
RECURSIVE LoadLoop(_, _, _, _)
LoadLoop(st, sel, i, unreadable) ==
    IF i > Len(sel) THEN st
    ELSE LoadLoop(LoadOneFile(st, sel, i, unreadable), sel, i + 1, unreadable)

\* self.trade_date from the name of the first file.
TradeDateOf(csv_files) ==
    LET parts == csv_files[1].parts
    IN IF Len(parts) >= 2 /\ Len(parts[2]) = 8
       THEN SubSeq(parts[2], 1, 4) \o <<"-">> \o SubSeq(parts[2], 5, 6)
            \o <<"-">> \o SubSeq(parts[2], 7, 8)
       ELSE <<"?">>

\* ---------------------------------------------------------------- detector
Logics == {"and", "or", "ignore", "only", "other"}
KnownLogics == {"and", "or", "ignore", "only"}

\* df['Amount'] = df['Price'] * df['Volume'], in hundredths of a yuan.
AmountOf(row) == row.Price * row.Volume

\* ClosedMask is Mask with a label that is none of the four selecting no
\* row.
ClosedMask(row, side, logic, threshold, amount_threshold) ==
    LET vol == row.Volume_Hand >= 100 * threshold
        amt == AmountOf(row) >= 100 * amount_threshold
    IN /\ row.Side = side
       /\ CASE logic = "and" -> vol /\ amt
            [] logic = "or" -> vol \/ amt
            [] logic = "ignore" -> vol
            [] logic = "only" -> amt
            [] OTHER -> FALSE

\* StrictMask is Mask comparing with > instead of >=.
StrictMask(row, side, logic, threshold, amount_threshold) ==
    LET vol == row.Volume_Hand > 100 * threshold
        amt == AmountOf(row) > 100 * amount_threshold
    IN /\ row.Side = side
       /\ CASE logic = "and" -> vol /\ amt
            [] logic = "or" -> vol \/ amt
            [] logic = "ignore" -> vol
            [] logic = "only" -> amt
            [] OTHER -> TRUE

\* buy_mask (side 0) and sell_mask (side 1) for one row: the side test and
\* the if/elif chain on the logic label; no branch is taken for a label
\* that is none of the four.
Mask(row, side, logic, threshold, amount_threshold) ==
    LET vol == row.Volume_Hand >= 100 * threshold
        amt == AmountOf(row) >= 100 * amount_threshold
    IN /\ row.Side = side
       /\ CASE logic = "and" -> vol /\ amt
            [] logic = "or" -> vol \/ amt
            [] logic = "ignore" -> vol
            [] logic = "only" -> amt
            [] OTHER -> TRUE

ActiveBuy == 0
ActiveSell == 1

BuyMask(row, cfg) ==
    Mask(row, ActiveBuy, cfg.buy_logic, cfg.buy_threshold,
         cfg.buy_amount_threshold)

SellMask(row, cfg) ==
    Mask(row, ActiveSell, cfg.sell_logic, cfg.sell_threshold,
         cfg.sell_amount_threshold)

RECURSIVE SumVolumeHand(_)
SumVolumeHand(rows) ==
    IF Len(rows) = 0 THEN 0
    ELSE rows[1].Volume_Hand + SumVolumeHand(Tail(rows))

RECURSIVE SumAmount(_)
SumAmount(rows) ==
    IF Len(rows) = 0 THEN 0 ELSE AmountOf(rows[1]) + SumAmount(Tail(rows))

\* n / d rounded to the nearest integer, ties to even.
RoundDiv(n, d) ==
    LET q == n \div d
        r == n % d
    IN IF 2 * r < d THEN q
       ELSE IF 2 * r > d THEN q + 1
       ELSE IF q % 2 = 0 THEN q ELSE q + 1

\* round(sum / 10000, 2): a sum in hundredths of a yuan, as hundredths of
\* 万元.
AmountInWan(sum) == RoundDiv(sum, 10000)

\* The DataFrame after df['Amount'] = ... : the column is added in place.
WithAmount(df) ==
    [cols |-> df.cols \cup {"Amount"},
     rows |-> [i \in 1..Len(df.rows) |->
                  [Price |-> df.rows[i].Price,
                   Volume |-> df.rows[i].Volume,
                   Side |-> df.rows[i].Side,
                   Volume_Hand |-> df.rows[i].Volume_Hand,
                   Amount |-> AmountOf(df.rows[i])]]]

\* ----------------------------------------------------------- name resolver
\* stock_code[-6:] if len(stock_code) > 6 else stock_code
Last6(stock_code) ==
    IF Len(stock_code) > 6
    THEN SubSeq(stock_code, Len(stock_code) - 5, Len(stock_code))
    ELSE stock_code

\* UncachedGetStockName is GetStockName with the table asked first.
UncachedGetStockName(cache, table, db_ok, stock_code) ==
    LET code == Last6(stock_code)
    IN IF ~db_ok
       THEN [raised |-> TRUE, name |-> code, cache |-> cache]
       ELSE IF code \in DOMAIN table
       THEN [raised |-> FALSE, name |-> table[code],
             cache |-> (code :> table[code]) @@ cache]
       ELSE IF code \in DOMAIN cache
       THEN [raised |-> FALSE, name |-> cache[code], cache |-> cache]
       ELSE [raised |-> FALSE, name |-> code, cache |-> cache]

\* get_stock_name: the cache, then the stock_names table (sqlite3 raises
\* when the store cannot be reached, db_ok = FALSE), then the code itself.
GetStockName(cache, table, db_ok, stock_code) ==
    LET code == Last6(stock_code)
    IN IF code \in DOMAIN cache
       THEN [raised |-> FALSE, name |-> cache[code], cache |-> cache]
       ELSE IF ~db_ok
       THEN [raised |-> TRUE, name |-> code, cache |-> cache]
       ELSE IF code \in DOMAIN table
       THEN [raised |-> FALSE, name |-> table[code],
             cache |-> (code :> table[code]) @@ cache]
       ELSE [raised |-> FALSE, name |-> code, cache |-> cache]

\* load_stock_names_from_db: every row of the table is written into the
\* cache; the entries the cache already holds for other codes stay.
LoadStockNamesFromDb(cache, table) == table @@ cache

\* The list `stocks` of update_stock_names: the rows of stock_info with the
\* code cut to its last 6 characters.
StocksOf(stock_info) ==
    [i \in 1..Len(stock_info) |->
        [code |-> Last6(stock_info[i].code), name |-> stock_info[i].name]]

\* executemany('INSERT OR REPLACE ...', stocks) into the emptied table: code
\* is the primary key, so the last row of a code is the one that stays.
InsertOrReplace(stocks) ==
    [code \in {stocks[i].code : i \in 1..Len(stocks)} |->
        LET last == CHOOSE i \in 1..Len(stocks) :
                        /\ stocks[i].code = code
                        /\ \A j \in (i + 1)..Len(stocks) : stocks[j].code # code
        IN stocks[last].name]

\* Autocommitted is RolledBack with every statement committed at once.
Autocommitted(committed, pending) == pending

\* The table after a connection with uncommitted statements is dropped:
\* sqlite3 opened the transaction at the first DELETE or INSERT and rolls
\* it back, so the committed rows are what remains.
RolledBack(committed, pending) == committed

\* What the other connections see of a transaction when every statement is
\* committed at once: each table in turn.
SeenWhenAutocommitted(committed, pending) == <<committed>> \o pending

\* What the other connections see of a transaction that commits: the
\* committed table before it and the last table after it.
SeenByOthers(committed, pending) ==
    <<committed, pending[Len(pending)]>>

\* ------------------------------------------------------------ watch lists
\* Table portfolios is the sequence of its rows, in insertion order.
\* InsertAlways is InsertOrIgnore without the UNIQUE constraint.
InsertAlways(table, row) == Append(table, row)

\* INSERT OR IGNORE under UNIQUE(portfolio_name, stock_code).
InsertOrIgnore(table, row) ==
    IF row \in Range(table) THEN table ELSE Append(table, row)

\* str.strip(): leading and trailing white space removed.
RECURSIVE Strip(_)
Strip(s) ==
    IF Len(s) = 0 THEN s
    ELSE IF s[1] \in {" ", "\t", "\n"} THEN Strip(Tail(s))
    ELSE IF s[Len(s)] \in {" ", "\t", "\n"}
    THEN Strip(SubSeq(s, 1, Len(s) - 1))
    ELSE s

\* int(s) does not raise: white space around, an optional sign, then digits
\* with single underscores between them.
IsInt(s) ==
    LET t == Strip(s)
        u == IF Len(t) > 0 /\ t[1] \in {"+", "-"} THEN Tail(t) ELSE t
        digit == {"0", "1", "2", "3", "4", "5", "6", "7", "8", "9"}
    IN /\ Len(u) > 0
       /\ u[1] \in digit
       /\ u[Len(u)] \in digit
       /\ \A i \in 1..Len(u) :
             \/ u[i] \in digit
             \/ u[i] = "_" /\ u[i + 1] # "_"

\* The code import_portfolio takes from one line of the file: <<code>>, or
\* <<>> when the line is skipped.
ParseLine(raw) ==
    LET line == Strip(raw)
        tabs == {i \in 1..Len(line) : line[i] = "\t"}
        first == IF tabs = {} THEN line
                 ELSE SubSeq(line, 1, (CHOOSE i \in tabs :
                                          \A j \in tabs : i <= j) - 1)
        stock_code == Last6(Strip(first))
    IN IF Len(line) = 0 \/ line[1] = "#" THEN <<>>
       ELSE IF Len(Strip(first)) = 0 THEN <<>>
       ELSE IF IsInt(stock_code) THEN <<stock_code>>
       ELSE <<>>

\* The list stock_codes after the lines of the file.
RECURSIVE ParseCodes(_)
ParseCodes(file_content) ==
    IF Len(file_content) = 0 THEN <<>>
    ELSE ParseLine(file_content[1]) \o ParseCodes(Tail(file_content))

\* The tables after each statement of import_portfolio's transaction: the
\* DELETE, then one INSERT OR IGNORE per code.
RECURSIVE ImportTables(_, _, _)
ImportTables(table, portfolio_name, stock_codes) ==
    IF Len(stock_codes) = 0 THEN <<table>>
    ELSE <<table>>
         \o ImportTables(InsertOrIgnore(table,
                             [portfolio_name |-> portfolio_name,
                              stock_code |-> stock_codes[1]]),
                         portfolio_name, Tail(stock_codes))

\* os.path.splitext(file_path)[1].lower() for the extensions of the model.
LowerExt(ext) ==
    [i \in 1..Len(ext) |->
        CASE ext[i] = "X" -> "x" [] ext[i] = "L" -> "l" [] ext[i] = "S" -> "s"
          [] OTHER -> ext[i]]

\* ---------------------------------------------------------------- analysis
NoResult == <<>>

\* NonNegativeCounts is HasBigTrades with >= in place of the first >.
NonNegativeCounts(count_big_buy, count_big_sell) ==
    count_big_buy >= 0 \/ count_big_sell > 0

\* if count_big_buy > 0 or count_big_sell > 0: a summary is returned.
HasBigTrades(count_big_buy, count_big_sell) ==
    count_big_buy > 0 \/ count_big_sell > 0

\* analyze_single_stock(stock_code, df, ...) for the table frames[stock_code]:
\* the Amount column is added to the table in place, the masks select the
\* big buys and big sells, and a summary is built (with the name from
\* get_stock_name) only when there is at least one of them.  `result` is
\* <<>> for None and <<summary>> otherwise; `raised` tells that
\* get_stock_name raised.
AnalyzeSingleStock(frs, cache, table, db_ok, stock_code, cfg) ==
    LET df == WithAmount(frs[stock_code])
        big_buys == SelectSeq(df.rows, LAMBDA r : BuyMask(r, cfg))
        big_sells == SelectSeq(df.rows, LAMBDA r : SellMask(r, cfg))
        count_big_buy == Len(big_buys)
        count_big_sell == Len(big_sells)
        frs1 == [frs EXCEPT ![stock_code] = df]
    IN IF HasBigTrades(count_big_buy, count_big_sell)
       THEN LET nm == GetStockName(cache, table, db_ok, stock_code)
            IN [raised |-> nm.raised,
                frames |-> frs1,
                cache |-> nm.cache,
                result |->
                   IF nm.raised THEN NoResult
                   ELSE << [code |-> stock_code,
                            name |-> nm.name,
                            buy_count |-> count_big_buy,
                            buy_lots |-> SumVolumeHand(big_buys),
                            buy_amount |-> AmountInWan(SumAmount(big_buys)),
                            sell_count |-> count_big_sell,
                            sell_lots |-> SumVolumeHand(big_sells),
                            sell_amount |-> AmountInWan(SumAmount(big_sells)),
                            total_lots |-> SumVolumeHand(df.rows),
                            big_trades |-> [buys |-> big_buys,
                                            sells |-> big_sells]] >>]
       ELSE [raised |-> FALSE, frames |-> frs1, cache |-> cache,
             result |-> NoResult]

\* BuyOnlyKeyLess is KeyLess without the second component of the key.
BuyOnlyKeyLess(a, b) == a.buy_lots < b.buy_lots

\* The sort key (buy lots, sell lots), compared as Python compares tuples.
KeyLess(a, b) ==
    \/ a.buy_lots < b.buy_lots
    \/ a.buy_lots = b.buy_lots /\ a.sell_lots < b.sell_lots

\* x put into a list that is sorted descending, after every element whose
\* key is not less than x's.
RECURSIVE InsertDesc(_, _)
InsertDesc(sorted, x) ==
    IF Len(sorted) = 0 THEN <<x>>
    ELSE IF KeyLess(sorted[1], x) THEN <<x>> \o sorted
    ELSE <<sorted[1]>> \o InsertDesc(Tail(sorted), x)

\* list.sort(key=..., reverse=True): descending and stable.
RECURSIVE SortDesc(_, _)
SortDesc(done, todo) ==
    IF Len(todo) = 0 THEN done
    ELSE SortDesc(InsertDesc(done, todo[1]), Tail(todo))

\* The state analyze_big_trades works on.
AnalysisStart(frs, cache) ==
    [frames |-> frs, cache |-> cache, results |-> <<>>, msgs |-> <<>>,
     visited |-> <<>>, processed |-> 0, raised |-> FALSE, failed |-> <<>>]

\* The inner loop of analyze_big_trades over market_data[market], from key
\* i on, with the summaries collected so far.  An exception of
\* analyze_single_stock is not caught: it leaves the loop and the method.
RECURSIVE AnalyzeMarket(_, _, _, _, _, _, _, _, _)
AnalyzeMarket(st, market, keys, i, market_results, total, table, db_ok, cfg) ==
    IF i > Len(keys)
    THEN [st EXCEPT !.results =
             (market :> SortDesc(<<>>, market_results)) @@ @]
    ELSE LET stock_code == keys[i]
             processed == st.processed + 1
             one == AnalyzeSingleStock(st.frames, st.cache, table, db_ok,
                                       stock_code, cfg)
             st1 == [st EXCEPT
                        !.processed = processed,
                        !.msgs = Append(@, Msg("analyzing", stock_code,
                                               processed, total)),
                        !.visited = Append(@, <<market, stock_code>>),
                        !.frames = one.frames,
                        !.cache = one.cache]
         IN IF one.raised
            THEN [st1 EXCEPT !.raised = TRUE,
                             !.failed = Append(@, <<market, stock_code>>)]
            ELSE AnalyzeMarket(st1, market, keys, i + 1,
                               market_results \o one.result,
                               total, table, db_ok, cfg)

\* The outer loop over self.market_data.items(), from market k on.
RECURSIVE AnalyzeMarkets(_, _, _, _, _, _, _)
AnalyzeMarkets(st, md, k, total, table, db_ok, cfg) ==
    IF k > Len(Markets) \/ st.raised THEN st
    ELSE AnalyzeMarkets(
            AnalyzeMarket(st, Markets[k], md[Markets[k]], 1, <<>>, total,
                          table, db_ok, cfg),
            md, k + 1, total, table, db_ok, cfg)

RECURSIVE SumLen(_, _)
SumLen(md, k) ==
    IF k > Len(Markets) THEN 0 ELSE Len(md[Markets[k]]) + SumLen(md, k + 1)

\* total_stocks = sum(len(stocks) for stocks in self.market_data.values())
TotalStocks(md) == SumLen(md, 1)

\* ------------------------------------------------------------------- state
VARIABLES
    dir_files,         \* the CSV files of directory "deal", in glob order
    random_sample,     \* self.random_sample
    data_dir,          \* self.data_dir
    stock_data,        \* self.stock_data (keys)
    market_data,       \* self.market_data (keys of each market's dict)
    frames,            \* the DataFrame objects the two indices refer to
    is_loaded,         \* self.is_loaded
    trade_date,        \* self.trade_date (<<>>: the attribute is not set)
    stock_name_cache,  \* self.stock_name_cache
    stock_names,       \* table stock_names of the store
    market_files,      \* local market_files of the last load_data
    selected_files,    \* local selected_files of the last load_data
    unread,            \* the selected files read_csv raised for in that load
    msgs,              \* the progress_callback calls of the last operation
    last_op,           \* the operation called last
    last_cfg,          \* the thresholds and logic labels it was given
    raised,            \* whether it ended with an exception
    results,           \* what it returned (<<>>: nothing)
    visited,           \* the (market, code) pairs it analysed, in order
    failed,            \* the (market, code) pairs whose analysis raised
    portfolios,        \* table portfolios of the store, in rowid order
    returned,          \* what a store or name operation returned
    store_seen,        \* the committed tables other connections could read
                       \* while the last store operation ran
    quota,             \* the quota computation of load_data, on its own
    tally,             \* the progress loop of analyze_big_trades, on its own
    load_btn,          \* BigTradeUI.load_btn: "normal" or "disabled"
    analyze_btn,       \* BigTradeUI.analyze_btn
    update_names_btn,  \* BigTradeUI.update_names_btn
    workers,           \* the worker threads started and not yet finished
    after_queue,       \* the callbacks posted with root.after, not yet run
    tables,            \* the codes of the rows shown in the market tables
    handler,           \* the handler, thread or callback that ran last
    exported,          \* the file export_portfolio wrote last (<<>>: none)
    portfolio_tree     \* the rows shown in the watch-list tables

storeVars == <<portfolios, returned, store_seen>>

uiVars ==
    <<load_btn, analyze_btn, update_names_btn, workers, after_queue, tables,
      handler, exported, portfolio_tree>>

pureVars == <<quota, tally>>

vars == <<dir_files, random_sample, data_dir, stock_data, market_data, frames,
          is_loaded, trade_date, stock_name_cache, stock_names, market_files,
          selected_files, unread, msgs, last_op, last_cfg, raised, results, visited,
          failed, portfolios, returned, store_seen, quota, tally, load_btn,
          analyze_btn, update_names_btn, workers, after_queue, tables,
          handler, exported, portfolio_tree>>

\* The rows of stock_names when the engine is constructed.
InitialNames ==
    (<<"6","0","0","0","0","0">> :> <<"P","F">>)
        @@ (<<"0","0","0","0","0","1">> :> <<"P","A">>)

NoCfg == <<>>

\* No value returned by a store or name operation.
NoReturn == <<>>

\* The quota computation not entered.
NoQuota == [stage |-> "none"]

\* The progress loop not entered on its own.
NoTally == [stage |-> "none"]

\* The engine as a whole: neither computation is taken on its own.
NoPure == quota = NoQuota /\ tally = NoTally

\* An operation that is no store operation.
NoStoreCall ==
    /\ returned' = NoReturn
    /\ store_seen' = <<>>
    /\ UNCHANGED portfolios

\* BigTradeAnalyzer.__init__ with data_dir 'deal_20251231'.
EngineInit(listings, samples) ==
    /\ dir_files \in listings
    /\ random_sample \in samples
    /\ data_dir = "deal"
    /\ stock_data = <<>>
    /\ market_data = EmptyMarketData
    /\ frames = <<>>
    /\ is_loaded = FALSE
    /\ trade_date = <<>>
    /\ stock_names = InitialNames
    /\ stock_name_cache = stock_names
    /\ market_files = EmptyMarketFiles
    /\ selected_files = <<>>
    /\ unread = {}
    /\ msgs = <<>>
    /\ last_op = "init"
    /\ last_cfg = NoCfg
    /\ raised = FALSE
    /\ results = <<>>
    /\ visited = <<>>
    /\ failed = <<>>
    /\ portfolios = <<>>
    /\ returned = NoReturn
    /\ store_seen = <<>>

\* BigTradeUI.__init__ and create_widgets: the three buttons enabled, no
\* worker thread, nothing posted.
\* The watch lists of the model.
PortfolioNames == {"A", "B"}

UiInit ==
    /\ load_btn = "normal"
    /\ analyze_btn = "normal"
    /\ update_names_btn = "normal"
    /\ workers = <<>>
    /\ after_queue = <<>>
    /\ tables = {}
    /\ handler = "init"
    /\ exported = <<>>
    /\ portfolio_tree = [portfolio_name \in PortfolioNames |-> <<>>]

\* What an operation other than an analysis leaves in the variables that
\* describe the last call.
NoAnalysis ==
    /\ last_cfg' = NoCfg
    /\ raised' = FALSE
    /\ results' = <<>>
    /\ visited' = <<>>
    /\ failed' = <<>>

\* load_data with self.data_dir = d (BigTradeUI.load_data sets it before
\* the call).  pd.read_csv raises for the files of `unreadable`, any set of
\* selected files when reads can fail (`fallible`) and none otherwise.
LoadData(d, fallible) ==
    /\ data_dir' = d
    /\ last_op' = "load_data"
    /\ NoAnalysis
    /\ NoStoreCall
    /\ UNCHANGED <<dir_files, random_sample, stock_name_cache, stock_names>>
    /\ LET csv_files == IF d = "deal" THEN dir_files ELSE <<>>
       IN IF d = "nodir"
          THEN /\ msgs' = <<Msg("error_no_directory", NoCode, 0, 0)>>
               /\ UNCHANGED <<stock_data, market_data, frames, is_loaded,
                              trade_date, market_files, selected_files,
                              unread>>
          ELSE IF Len(csv_files) = 0
          THEN /\ msgs' = <<Msg("error_no_csv", NoCode, 0, 0)>>
               /\ UNCHANGED <<stock_data, market_data, frames, is_loaded,
                              trade_date, market_files, selected_files,
                              unread>>
          ELSE LET mf == GroupFiles(csv_files, 1, EmptyMarketFiles)
               IN \E sel \in Selections(csv_files, mf, random_sample) :
                   \E unreadable \in (IF fallible THEN SUBSET Range(sel)
                                      ELSE {{}}) :
                     LET head == << Msg("found", NoCode, Len(csv_files), 0),
                                    Msg("distribution", NoCode, 0, 0) >>
                                 \o (IF random_sample > 0
                                     THEN << Msg("sampled", NoCode, Len(sel), 0),
                                             Msg("sample_distribution", NoCode, 0, 0) >>
                                     ELSE << Msg("load_all", NoCode,
                                                 Len(csv_files), 0) >>)
                     IN \E st \in {LoadLoop(ClearedIndex(head), sel, 1, unreadable)} :
                        /\ trade_date' = TradeDateOf(csv_files)
                        /\ market_files' = mf
                        /\ selected_files' = sel
                        /\ unread' = unreadable
                        /\ stock_data' = st.stock_data
                        /\ market_data' = st.market_data
                        /\ frames' = st.frames
                        /\ msgs' = Append(st.msgs, Msg("done", NoCode, 0, 0))
                        /\ is_loaded' = TRUE

Config(bt, st, bat, sat, bl, sl) ==
    [buy_threshold |-> bt, sell_threshold |-> st,
     buy_amount_threshold |-> bat, sell_amount_threshold |-> sat,
     buy_logic |-> bl, sell_logic |-> sl]

\* analyze_big_trades(cfg...), with the store reachable or not.
AnalyzeBigTrades(cfg, db_ok) ==
    \E st \in {AnalyzeMarkets(AnalysisStart(frames, stock_name_cache),
                              market_data, 1, TotalStocks(market_data),
                              stock_names, db_ok, cfg)} :
       /\ last_op' = "analyze_big_trades"
       /\ last_cfg' = cfg
       /\ NoStoreCall
       /\ frames' = st.frames
       /\ stock_name_cache' = st.cache
       /\ msgs' = st.msgs
       /\ visited' = st.visited
       /\ failed' = st.failed
       /\ raised' = st.raised
       /\ results' = IF st.raised THEN <<>> ELSE st.results
       /\ UNCHANGED <<dir_files, random_sample, data_dir, stock_data,
                      market_data, is_loaded, trade_date, stock_names,
                      market_files, selected_files, unread>>

\* analyze_single_stock(stock_code, None, cfg...): the table is looked up in
\* stock_data, then in every market_data dict; None is returned when the
\* code is in none of them.
AnalyzeSingleStockCall(stock_code, cfg, db_ok) ==
    /\ last_op' = "analyze_single_stock"
    /\ last_cfg' = cfg
    /\ NoStoreCall
    /\ msgs' = <<>>
    /\ visited' = << <<"single", stock_code>> >>
    /\ UNCHANGED <<dir_files, random_sample, data_dir, stock_data,
                   market_data, is_loaded, trade_date, stock_names,
                   market_files, selected_files, unread>>
    /\ IF \/ stock_code \in Range(stock_data)
          \/ \E m \in MarketSet : stock_code \in Range(market_data[m])
       THEN \E one \in {AnalyzeSingleStock(frames, stock_name_cache,
                                           stock_names, db_ok, stock_code, cfg)} :
               /\ frames' = one.frames
               /\ stock_name_cache' = one.cache
               /\ raised' = one.raised
               /\ failed' = IF one.raised THEN << <<"single", stock_code>> >>
                            ELSE <<>>
               /\ results' = one.result
       ELSE /\ raised' = FALSE
            /\ failed' = <<>>
            /\ results' = NoResult
            /\ UNCHANGED <<frames, stock_name_cache>>

\* ---------------------------------------------------------- specifications
\* Loading: any listing of the pool, any sample size, any set of files that
\* cannot be read.
Init == EngineInit(Listings, SampleSizes) /\ UiInit /\ NoPure

Load ==
    \E d \in DirNames : LoadData(d, TRUE) /\ UNCHANGED <<uiVars, pureVars>>

Next == Load

Spec == Init /\ [][Next]_vars

\* Loading and analysing: the listings of the files of the pool that have
\* the required columns, read without failure, everything loaded.
ReadablePool == {f \in FilePool : AllCols \subseteq f.cols}

AnalyzeInit ==
    EngineInit(InjSeqs(ReadablePool, MaxFiles), {0}) /\ UiInit /\ NoPure

LoadReadable ==
    \E d \in DirNames : LoadData(d, FALSE) /\ UNCHANGED <<uiVars, pureVars>>

\* Both sides configured alike, under each of the four labels: 60 lots and
\* 60000 yuan, which some rows of the pool reach and others do not, or 100
\* lots and 100000 yuan, which no row of the pool reaches.
EngineConfigs ==
    {Config(t[1], t[1], t[2], t[2], l, l) :
        t \in {<<60, 60000>>, <<100, 100000>>}, l \in KnownLogics}

Analyze ==
    \E cfg \in EngineConfigs, db_ok \in BOOLEAN :
        AnalyzeBigTrades(cfg, db_ok) /\ UNCHANGED <<uiVars, pureVars>>

AnalyzeNext == LoadReadable \/ Analyze

SpecAnalyze == AnalyzeInit /\ [][AnalyzeNext]_vars

\* The detector alone: two loaded tables whose rows lie at, just below and
\* above the thresholds, analysed one instrument at a time under every pair
\* of logic labels; the buy and the sell thresholds differ.
DetectListing == <<FileGEM, FileSZ>>

DetectInit == EngineInit({DetectListing}, {0}) /\ UiInit /\ NoPure

DetectConfigs ==
    {Config(50, 60, 60000, 50000, bl, sl) : bl \in Logics, sl \in Logics}

DetectCodes == {StockCodeOf(f) : f \in {FileGEM, FileSZ, FileSTAR}}

AnalyzeOne ==
    \E stock_code \in DetectCodes, cfg \in DetectConfigs, db_ok \in BOOLEAN :
        AnalyzeSingleStockCall(stock_code, cfg, db_ok)
        /\ UNCHANGED <<uiVars, pureVars>>

DetectNext == LoadReadable \/ AnalyzeOne

SpecDetect == DetectInit /\ [][DetectNext]_vars

\* The quota computation alone (lines 272-286): any sample size up to
\* MaxTarget and any numbers of SH and SZ main-board files up to
\* MaxPopulation.
QuotaInit ==
    /\ EngineInit({<<>>}, 1..MaxTarget)
    /\ UiInit
    /\ tally = NoTally
    /\ quota \in {[stage |-> "in", sh |-> a, sz |-> b] :
                      a \in 0..MaxPopulation, b \in 0..MaxPopulation}

AllocateQuotas ==
    /\ quota.stage = "in"
    /\ random_sample > 0
    /\ \E mc \in {MainboardCount(random_sample)} :
          quota' = [stage |-> "out", sh |-> quota.sh, sz |-> quota.sz,
                    mainboard_count |-> mc,
                    gem_count |-> GemCount(random_sample),
                    star_count |-> StarCount(random_sample),
                    sh_mainboard_count |->
                        ShMainboardCount(mc, quota.sh, quota.sz),
                    sz_mainboard_count |->
                        SzMainboardCount(mc, quota.sh, quota.sz)]
    /\ UNCHANGED <<dir_files, random_sample, data_dir, stock_data,
                   market_data, frames, is_loaded, trade_date,
                   stock_name_cache, stock_names, market_files,
                   selected_files, unread, msgs, last_op, last_cfg, raised,
                   results, visited, failed, storeVars, uiVars, tally>>

QuotaNext == AllocateQuotas

SpecQuota == QuotaInit /\ [][QuotaNext]_vars

\* Progress reporting: the loads and analyses of one directory, where reads
\* and the name store can fail, and the progress loop of analyze_big_trades
\* (lines 454-460) alone for LargeTotal visits.
ProgressListing == <<FileSH, FileBadPrice, FileBSE, FileGEM>>

ProgressInit ==
    \/ EngineInit({ProgressListing}, {0}) /\ UiInit /\ NoPure
    \/ /\ EngineInit({<<>>}, {0})
       /\ UiInit
       /\ quota = NoQuota
       /\ tally = [stage |-> "pass", processed |-> 0, total |-> LargeTotal]

\* One turn of the loop: the count is advanced and the progress reported.
ReportProgress ==
    /\ tally.stage = "pass"
    /\ tally.processed < tally.total
    /\ tally' = [tally EXCEPT !.processed = @ + 1]
    /\ msgs' = Append(msgs, Msg("analyzing", NoCode, tally.processed + 1,
                                tally.total))
    /\ UNCHANGED <<dir_files, random_sample, data_dir, stock_data,
                   market_data, frames, is_loaded, trade_date,
                   stock_name_cache, stock_names, market_files,
                   selected_files, unread, last_op, last_cfg, raised,
                   results, visited, failed, storeVars, uiVars, quota>>

ProgressNext ==
    \/ tally = NoTally /\ Load
    \/ tally = NoTally /\ Analyze
    \/ ReportProgress

SpecProgress == ProgressInit /\ [][ProgressNext]_vars

\* The name store: refreshes from the external source, which can raise, as
\* can the bulk insert and the reload of the cache, and look-ups.
SourceCodes ==
    {<<"0","0","0","0","0","1">>, <<"S","H","6","0","0","0","0","0">>}

SourceNames == {<<"P","F">>, <<"X","D">>}

\* The tables ak.stock_info_a_code_name() can return.
StockInfos ==
    UNION {[1..n -> [code : SourceCodes, name : SourceNames]] : n \in 0..MaxRows}

LookupCodes ==
    SourceCodes \cup {<<"6","0","0","0","0","0">>, <<"3","0","0","0","0","1">>}

UpdateOutcomes ==
    {"ok", "stock_info_a_code_name", "executemany", "load_stock_names_from_db"}

\* update_stock_names(progress_callback).  `outcome` names the call that
\* raises, or is "ok".
UpdateStockNames(stock_info, outcome) ==
    /\ last_op' = "update_stock_names"
    /\ last_cfg' = [stock_info |-> stock_info]
    /\ store_seen' = <<>>
    /\ UNCHANGED portfolios
    /\ raised' = FALSE
    /\ results' = <<>>
    /\ visited' = <<>>
    /\ failed' = IF outcome = "ok" THEN <<>>
                 ELSE << <<"update_stock_names", outcome>> >>
    /\ returned' = <<outcome = "ok">>
    /\ msgs' = <<Msg("update_start", NoCode, 0, 0)>>
                \o (IF outcome # "stock_info_a_code_name" /\ Len(stock_info) > 0
                    THEN <<Msg("updating", NoCode, 1, Len(stock_info))>>
                    ELSE <<>>)
                \o (IF outcome = "ok"
                    THEN <<Msg("update_done", NoCode, Len(stock_info), 0)>>
                    ELSE <<Msg("update_failed", NoCode, 0, 0)>>)
    /\ stock_names' =
          CASE outcome = "stock_info_a_code_name" -> stock_names
            [] outcome = "executemany" ->
                  RolledBack(stock_names, InsertOrReplace(<<>>))
            [] OTHER -> InsertOrReplace(StocksOf(stock_info))
    /\ stock_name_cache' =
          IF outcome = "ok"
          THEN LoadStockNamesFromDb(stock_name_cache,
                                    InsertOrReplace(StocksOf(stock_info)))
          ELSE stock_name_cache
    /\ UNCHANGED <<dir_files, random_sample, data_dir, stock_data,
                   market_data, frames, is_loaded, trade_date, market_files,
                   selected_files, unread>>

\* get_stock_name(stock_code) called on its own.
GetStockNameCall(stock_code, db_ok) ==
    /\ last_op' = "get_stock_name"
    /\ last_cfg' = [stock_code |-> stock_code]
    /\ store_seen' = <<>>
    /\ UNCHANGED portfolios
    /\ results' = <<>>
    /\ visited' = <<>>
    /\ failed' = <<>>
    /\ msgs' = <<>>
    /\ \E got \in {GetStockName(stock_name_cache, stock_names, db_ok,
                                 stock_code)} :
          /\ raised' = got.raised
          /\ returned' = IF got.raised THEN NoReturn ELSE <<got.name>>
          /\ stock_name_cache' = got.cache
    /\ UNCHANGED <<dir_files, random_sample, data_dir, stock_data,
                   market_data, frames, is_loaded, trade_date, stock_names,
                   market_files, selected_files, unread>>

NamesInit == EngineInit({<<>>}, {0}) /\ UiInit /\ NoPure

\* When the source raises there is no table: stock_info is left empty.
UpdateNames ==
    \E stock_info \in StockInfos, outcome \in UpdateOutcomes :
        /\ outcome = "stock_info_a_code_name" => stock_info = <<>>
        /\ UpdateStockNames(stock_info, outcome)
        /\ UNCHANGED <<uiVars, pureVars>>

LookUpName ==
    \E stock_code \in LookupCodes, db_ok \in BOOLEAN :
        GetStockNameCall(stock_code, db_ok) /\ UNCHANGED <<uiVars, pureVars>>

NamesNext == UpdateNames \/ LookUpName

SpecNames == NamesInit /\ [][NamesNext]_vars

\* The watch-list store: entries added, removed and imported from files;
\* every operation can fail at the store.
PortfolioLines ==
    {<<"S","H","6","0","0","0","0","0","\n">>,
     <<" ","0","0","0","0","0","1","\t","P","A","\n">>,
     <<"\t","#","6","0","0","0","0","0","\n">>}

\* The files: any lines under the extension .XLS, and a header line with
\* one code under the extensions .xls and .txt.  `opens` tells what open()
\* and readlines() do with the file: "ok", "missing" (open raises OSError)
\* or "undecodable" (readlines raises UnicodeDecodeError under every
\* encoding Python knows).
PortfolioFiles ==
    [ext : {<<".","X","L","S">>},
     opens : {"ok"},
     lines : UNION {[1..n -> PortfolioLines] : n \in 0..MaxLines}]
    \cup [ext : {<<".","x","l","s">>, <<".","t","x","t">>},
          opens : {"ok"},
          lines : {<<<<"c","o","d","e","\t","n","a","m","e","\n">>,
                     <<"6","0","0","0","0","0">>>>}]

\* MisfiledEntry is Entry with the row always filed under list "A".
MisfiledEntry(portfolio_name, stock_code) ==
    [portfolio_name |-> "A", stock_code |-> stock_code]

\* A row of table portfolios.
Entry(portfolio_name, stock_code) ==
    [portfolio_name |-> portfolio_name, stock_code |-> stock_code]

\* What a store operation leaves in the variables of the engine.
StoreCall(op, cfg) ==
    /\ last_op' = op
    /\ last_cfg' = cfg
    /\ raised' = FALSE
    /\ results' = <<>>
    /\ visited' = <<>>
    /\ failed' = <<>>
    /\ msgs' = <<>>
    /\ UNCHANGED <<dir_files, random_sample, data_dir, stock_data,
                   market_data, frames, is_loaded, trade_date,
                   stock_name_cache, stock_names, market_files,
                   selected_files, unread>>

\* add_stock_to_portfolio(portfolio_name, stock_code); with ~db_ok sqlite3
\* raises and nothing is committed.
AddStockToPortfolio(portfolio_name, stock_code, db_ok) ==
    /\ StoreCall("add_stock_to_portfolio",
                 [portfolio_name |-> portfolio_name, stock_code |-> stock_code])
    /\ \E pending \in {<<InsertOrIgnore(portfolios,
                              Entry(portfolio_name, Last6(stock_code)))>>} :
          IF db_ok
          THEN /\ portfolios' = pending[1]
               /\ store_seen' = SeenByOthers(portfolios, pending)
               /\ returned' = <<TRUE, "added">>
          ELSE /\ portfolios' = RolledBack(portfolios, pending[1])
               /\ store_seen' = <<portfolios>>
               /\ returned' = <<FALSE, "add_failed">>

\* remove_stock_from_portfolio(portfolio_name, stock_code).
RemoveStockFromPortfolio(portfolio_name, stock_code, db_ok) ==
    /\ StoreCall("remove_stock_from_portfolio",
                 [portfolio_name |-> portfolio_name, stock_code |-> stock_code])
    /\ \E pending \in {<<SelectSeq(portfolios,
                              LAMBDA row : row # Entry(portfolio_name,
                                                       Last6(stock_code)))>>} :
          IF db_ok
          THEN /\ portfolios' = pending[1]
               /\ store_seen' = SeenByOthers(portfolios, pending)
               /\ returned' = <<TRUE, "removed">>
          ELSE /\ portfolios' = RolledBack(portfolios, pending[1])
               /\ store_seen' = <<portfolios>>
               /\ returned' = <<FALSE, "remove_failed">>

\* import_portfolio(portfolio_name, file_path); with ~db_ok a statement of
\* the transaction raises after the DELETE.  A file that cannot be opened
\* ends in the outer except; one that no encoding decodes ends at
\* "file_content is None" where 'ansi' is a codec (Windows) and in the
\* outer except with LookupError where it is not.  Of the file the call is
\* remembered by its list stock_codes.
ImportPortfolio(portfolio_name, file, db_ok) ==
    \E stock_codes \in {IF /\ LowerExt(file.ext) = <<".","x","l","s">>
                            /\ file.opens = "ok"
                         THEN ParseCodes(file.lines) ELSE <<>>} :
       /\ StoreCall("import_portfolio",
                    [portfolio_name |-> portfolio_name,
                     stock_codes |-> stock_codes])
       /\ IF LowerExt(file.ext) # <<".","x","l","s">>
          THEN /\ returned' = <<FALSE, "xls_only">>
               /\ store_seen' = <<portfolios>>
               /\ UNCHANGED portfolios
          ELSE IF file.opens # "ok"
          THEN /\ returned' \in
                     IF file.opens = "missing"
                     THEN {<<FALSE, "import_failed">>}
                     ELSE {<<FALSE, "unknown_encoding">>,
                           <<FALSE, "import_failed">>}
               /\ store_seen' = <<portfolios>>
               /\ UNCHANGED portfolios
          ELSE \E pending \in
                   {ImportTables(SelectSeq(portfolios,
                                    LAMBDA row : row.portfolio_name # portfolio_name),
                                 portfolio_name, stock_codes)} :
                  IF db_ok
                  THEN /\ portfolios' = pending[Len(pending)]
                       /\ store_seen' = SeenByOthers(portfolios, pending)
                       /\ returned' = <<TRUE, "imported", Len(stock_codes)>>
                  ELSE /\ portfolios' = RolledBack(portfolios, pending[1])
                       /\ store_seen' = <<portfolios>>
                       /\ returned' = <<FALSE, "import_failed">>

StoreInit == EngineInit({<<>>}, {0}) /\ UiInit /\ NoPure

AddEntry ==
    \E portfolio_name \in PortfolioNames, stock_code \in SourceCodes,
       db_ok \in BOOLEAN :
        /\ AddStockToPortfolio(portfolio_name, stock_code, db_ok)
        /\ UNCHANGED <<uiVars, pureVars>>

RemoveEntry ==
    \E portfolio_name \in PortfolioNames, stock_code \in SourceCodes,
       db_ok \in BOOLEAN :
        /\ RemoveStockFromPortfolio(portfolio_name, stock_code, db_ok)
        /\ UNCHANGED <<uiVars, pureVars>>

ImportList ==
    \E portfolio_name \in PortfolioNames, file \in PortfolioFiles,
       db_ok \in BOOLEAN :
        /\ ImportPortfolio(portfolio_name, file, db_ok)
        /\ UNCHANGED <<uiVars, pureVars>>

StoreNext == AddEntry \/ RemoveEntry \/ ImportList

SpecStore == StoreInit /\ [][StoreNext]_vars

\* get_portfolio_stocks(portfolio_name): the rows of the list joined with
\* stock_names, the code standing in for a missing or empty name; the rows
\* come in the order of the table (the SELECT has no ORDER BY).
GetPortfolioStocks(table, names, portfolio_name) ==
    LET rows == SelectSeq(table,
                          LAMBDA row : row.portfolio_name = portfolio_name)
    IN [i \in 1..Len(rows) |->
           [code |-> rows[i].stock_code,
            name |-> IF /\ rows[i].stock_code \in DOMAIN names
                        /\ names[rows[i].stock_code] # <<>>
                     THEN names[rows[i].stock_code]
                     ELSE rows[i].stock_code]]

\* BigTradeUI.export_portfolio for the list chosen in the combo box;
\* file_ext is the extension of the path the save dialog returns, <<>>
\* when it is cancelled.  Nothing is written for a list without entries.
ExportPortfolio(portfolio_name, file_ext) ==
    /\ handler' = "export_portfolio"
    /\ StoreCall("export_portfolio",
                 [portfolio_name |-> portfolio_name, file_ext |-> file_ext])
    /\ returned' = NoReturn
    /\ store_seen' = <<portfolios>>
    /\ \E stocks \in {GetPortfolioStocks(portfolios, stock_names,
                                          portfolio_name)} :
          exported' =
             IF stocks = <<>> \/ file_ext = <<>> THEN <<>>
             ELSE << [ext |-> file_ext,
                      opens |-> "ok",
                      lines |->
                         <<<<"c","o","d","e","\t","n","a","m","e","\n">>>>
                         \o [i \in 1..Len(stocks) |->
                                stocks[i].code \o <<"\t">> \o stocks[i].name
                                \o <<"\n">>]] >>
    /\ UNCHANGED <<portfolios, pureVars, load_btn, analyze_btn,
                   update_names_btn, workers, after_queue, tables,
                   portfolio_tree>>

\* Files handed over between programs: what an export writes, a list of
\* prefixed codes, a field that keeps a blank or a sign in its last six
\* characters, a file without any code, a text file, and files that
\* cannot be opened or decoded.
ExchangeFiles ==
    {[ext |-> <<".","x","l","s">>, opens |-> "ok",
      lines |-> <<<<"c","o","d","e","\t","n","a","m","e","\n">>,
                  <<"6","0","0","0","0","0","\t","P","F","\n">>>>],
     [ext |-> <<".","X","L","S">>, opens |-> "ok",
      lines |-> <<<<"S","H","6","0","0","0","0","0","\n">>,
                  <<"0","0","0","0","0","1","\n">>,
                  <<"S","H","6","0","0","0","0","0","\n">>>>],
     [ext |-> <<".","x","l","s">>, opens |-> "ok",
      lines |-> <<<<"S","H"," ","0","0","0","0","1","\n">>>>],
     [ext |-> <<".","x","l","s">>, opens |-> "ok",
      lines |-> <<<<"-","0","0","0","0","1","\n">>>>],
     [ext |-> <<".","x","l","s">>, opens |-> "ok",
      lines |-> <<<<"#","6","0","0","0","0","0","\n">>, <<"\n">>>>],
     [ext |-> <<".","t","x","t">>, opens |-> "ok",
      lines |-> <<<<"6","0","0","0","0","0","\n">>>>],
     [ext |-> <<".","x","l","s">>, opens |-> "missing", lines |-> <<>>],
     [ext |-> <<".","x","l","s">>, opens |-> "undecodable", lines |-> <<>>]}

ImportFile ==
    \E portfolio_name \in PortfolioNames,
       file \in ExchangeFiles \cup Range(exported), db_ok \in BOOLEAN :
        /\ ImportPortfolio(portfolio_name, file, db_ok)
        /\ UNCHANGED <<uiVars, pureVars>>

ExportList ==
    \E portfolio_name \in PortfolioNames,
       file_ext \in {<<>>, <<".","x","l","s">>, <<".","t","x","t">>} :
        ExportPortfolio(portfolio_name, file_ext)

ExchangeNext == ImportFile \/ ExportList

SpecExchange == StoreInit /\ [][ExchangeNext]_vars

\* The window: the buttons, the context menu of the market tables, the
\* worker threads and the callbacks they post.  A thread is in `workers`
\* from its start to its end; its call of the engine is taken as one step.
engineVars ==
    <<dir_files, random_sample, data_dir, stock_data, market_data, frames,
      is_loaded, trade_date, stock_name_cache, stock_names, market_files,
      selected_files, unread, msgs, last_op, last_cfg, raised, results,
      visited, failed>>

\* The entries of the threshold fields, with buy_threshold and buy_logic
\* as given.
UiConfig(buy_threshold, buy_logic) ==
    Config(buy_threshold, 60, 60000, 50000, buy_logic, "and")

\* analysis_dict of update_portfolio_with_analysis: the summaries of every
\* market's list by code, a later market's summary replacing an earlier one.
AnalysisDict(market_results) ==
    LET at(i) == {market_results[Markets[i]][k].code :
                     k \in 1..Len(market_results[Markets[i]])}
    IN [stock_code \in UNION {at(i) : i \in 1..Len(Markets)} |->
           LET last == CHOOSE i \in 1..Len(Markets) :
                          /\ stock_code \in at(i)
                          /\ \A j \in 1..Len(Markets) :
                                stock_code \in at(j) => j <= i
               list == market_results[Markets[last]]
           IN list[CHOOSE k \in 1..Len(list) :
                      /\ list[k].code = stock_code
                      /\ \A n \in 1..Len(list) :
                            list[n].code = stock_code => n <= k]]

\* update_portfolio_with_analysis(results): every watch-list table is
\* emptied and filled again from the store, an entry with the columns of
\* its summary when its code is in analysis_dict and with blank columns
\* when it is not.  `analysis` is <<>> for blank columns.
UpdatePortfolioWithAnalysis(table, names, analysis_dict) ==
    [portfolio_name \in PortfolioNames |->
        LET portfolio_stocks == GetPortfolioStocks(table, names, portfolio_name)
        IN [i \in 1..Len(portfolio_stocks) |->
               IF portfolio_stocks[i].code \in DOMAIN analysis_dict
               THEN [code |-> analysis_dict[portfolio_stocks[i].code].code,
                     name |-> analysis_dict[portfolio_stocks[i].code].name,
                     analysis |-> <<analysis_dict[portfolio_stocks[i].code]>>]
               ELSE [code |-> portfolio_stocks[i].code,
                     name |-> portfolio_stocks[i].name,
                     analysis |-> <<>>]]]

\* refresh_portfolio_display(): every watch-list table is emptied and
\* filled again from the store with code, name and blank columns.
RefreshPortfolioDisplay(table, names) ==
    [portfolio_name \in PortfolioNames |->
        LET stocks == GetPortfolioStocks(table, names, portfolio_name)
        IN [i \in 1..Len(stocks) |->
               [code |-> stocks[i].code, name |-> stocks[i].name,
                analysis |-> <<>>]]]

Without(seq, i) == SubSeq(seq, 1, i - 1) \o SubSeq(seq, i + 1, Len(seq))

\* BigTradeUI.load_data, the command of load_btn; `chosen` is what the
\* directory dialog returns, "" when it is cancelled.  Every table of the
\* window is emptied first, the watch-list tables included.
ClickLoad(chosen) ==
    /\ load_btn = "normal"
    /\ handler' = "load_data"
    /\ tables' = {}
    /\ portfolio_tree' = [portfolio_name \in PortfolioNames |-> <<>>]
    /\ IF chosen = ""
       THEN /\ load_btn' = "normal"
            /\ analyze_btn' = "normal"
            /\ UNCHANGED workers
       ELSE /\ load_btn' = "disabled"
            /\ analyze_btn' = "disabled"
            /\ workers' = Append(workers, [kind |-> "load", arg |-> chosen])
    /\ UNCHANGED <<engineVars, storeVars, pureVars, update_names_btn,
                   after_queue, exported>>

\* load_thread: the engine loads, then on_load_complete is posted.
LoadThread(i) ==
    /\ workers[i].kind = "load"
    /\ handler' = "load_thread"
    /\ LoadData(workers[i].arg, FALSE)
    /\ workers' = Without(workers, i)
    /\ after_queue' = Append(after_queue,
                             [fn |-> "on_load_complete", shown |-> {},
                              analysis |-> <<>>])
    /\ UNCHANGED <<pureVars, load_btn, analyze_btn, update_names_btn, tables,
                   exported, portfolio_tree>>

\* BigTradeUI.analyze_data, the command of analyze_btn; `entry` is the text
\* of the buy threshold field: <<n>> for the digits of n, <<>> for a text
\* int() rejects; buy_logic is the label of the buy side.  The range test
\* does not look at the labels.
ClickAnalyze(entry, buy_logic) ==
    /\ analyze_btn = "normal"
    /\ handler' = "analyze_data"
    /\ IF is_loaded /\ entry # <<>> /\ entry[1] >= 1 /\ entry[1] <= 20000
       THEN /\ analyze_btn' = "disabled"
            /\ load_btn' = "disabled"
            /\ workers' = Append(workers,
                                 [kind |-> "analyze",
                                  arg |-> UiConfig(entry[1], buy_logic)])
       ELSE UNCHANGED <<analyze_btn, load_btn, workers>>
    /\ UNCHANGED <<engineVars, storeVars, pureVars, update_names_btn,
                   after_queue, tables, exported, portfolio_tree>>

\* analyze_thread: the engine analyses; on_analyze_complete is posted with
\* the results, or on_analyze_error when the call raised.
AnalyzeThread(i, db_ok) ==
    /\ workers[i].kind = "analyze"
    /\ handler' = "analyze_thread"
    /\ AnalyzeBigTrades(workers[i].arg, db_ok)
    /\ workers' = Without(workers, i)
    /\ after_queue' =
          Append(after_queue,
                 IF raised' THEN [fn |-> "on_analyze_error", shown |-> {},
                                  analysis |-> <<>>]
                 ELSE [fn |-> "on_analyze_complete",
                       shown |-> {results'["All"][k].code :
                                     k \in 1..Len(results'["All"])},
                       analysis |-> AnalysisDict(results')])
    /\ UNCHANGED <<pureVars, load_btn, analyze_btn, update_names_btn, tables,
                   exported, portfolio_tree>>

\* BigTradeUI.update_stock_names, the command of update_names_btn.
ClickUpdateNames ==
    /\ update_names_btn = "normal"
    /\ handler' = "update_stock_names"
    /\ update_names_btn' = "disabled"
    /\ workers' = Append(workers, [kind |-> "update", arg |-> ""])
    /\ UNCHANGED <<engineVars, storeVars, pureVars, load_btn, analyze_btn,
                   after_queue, tables, exported, portfolio_tree>>

\* update_thread: the engine refreshes the names, then the re-enabling of
\* the button and refresh_portfolio_display are posted.
UpdateThread(i, stock_info, outcome) ==
    /\ workers[i].kind = "update"
    /\ handler' = "update_thread"
    /\ UpdateStockNames(stock_info, outcome)
    /\ workers' = Without(workers, i)
    /\ after_queue' = after_queue
                         \o <<[fn |-> "enable_update_names", shown |-> {},
                               analysis |-> <<>>],
                              [fn |-> "refresh_portfolio_display",
                               shown |-> {}, analysis |-> <<>>]>>
    /\ UNCHANGED <<pureVars, load_btn, analyze_btn, update_names_btn, tables,
                   exported, portfolio_tree>>

\* The first posted callback runs on the UI thread; on_analyze_complete
\* shows the results in the market tables (display_results) and ends with
\* update_portfolio_with_analysis(results).
RunCallback ==
    /\ after_queue # <<>>
    /\ handler' = after_queue[1].fn
    /\ after_queue' = Tail(after_queue)
    /\ CASE after_queue[1].fn = "enable_update_names" ->
              /\ update_names_btn' = "normal"
              /\ UNCHANGED <<load_btn, analyze_btn, tables, portfolio_tree>>
         [] after_queue[1].fn = "refresh_portfolio_display" ->
              /\ portfolio_tree' = RefreshPortfolioDisplay(portfolios,
                                                           stock_names)
              /\ UNCHANGED <<load_btn, analyze_btn, update_names_btn, tables>>
         [] after_queue[1].fn = "on_analyze_complete" ->
              /\ tables' = after_queue[1].shown
              /\ portfolio_tree' =
                    UpdatePortfolioWithAnalysis(portfolios, stock_names,
                                                after_queue[1].analysis)
              /\ load_btn' = "normal"
              /\ analyze_btn' = "normal"
              /\ UNCHANGED update_names_btn
         [] OTHER ->
              /\ load_btn' = "normal"
              /\ analyze_btn' = "normal"
              /\ UNCHANGED <<update_names_btn, tables, portfolio_tree>>
    /\ UNCHANGED <<engineVars, storeVars, pureVars, workers, exported>>

\* The codes of the rows of the watch-list table of one list.
TreeCodes(portfolio_name) ==
    {portfolio_tree[portfolio_name][i].code :
        i \in 1..Len(portfolio_tree[portfolio_name])}

\* show_context_menu on a row of a table and add_to_specific_portfolio from
\* the menu, on the UI thread: the code is added to the watch list and,
\* when is_loaded, analysed at once with the thresholds of the fields,
\* which are not tested against the range; the watch-list tables are then
\* filled from the result of this one analysis, or without any analysis
\* when there is none.  `entry` and buy_logic are as in ClickAnalyze.
AddToSpecificPortfolio(portfolio_name, selected_stock, entry, buy_logic) ==
    /\ handler' = "add_to_specific_portfolio"
    /\ portfolios' = InsertOrIgnore(portfolios,
                                    Entry(portfolio_name, Last6(selected_stock)))
    /\ store_seen' = SeenByOthers(portfolios, <<portfolios'>>)
    /\ returned' = <<TRUE, "added">>
    /\ msgs' = <<>>
    /\ IF is_loaded /\ entry # <<>>
       THEN \E one \in {AnalyzeSingleStock(frames, stock_name_cache,
                                            stock_names, TRUE, selected_stock,
                                            UiConfig(entry[1], buy_logic))} :
               /\ last_op' = "analyze_single_stock"
               /\ last_cfg' = UiConfig(entry[1], buy_logic)
               /\ visited' = << <<"single", selected_stock>> >>
               /\ frames' = one.frames
               /\ stock_name_cache' = one.cache
               /\ raised' = one.raised
               /\ failed' = <<>>
               /\ results' = one.result
               /\ portfolio_tree' =
                     IF one.result # NoResult
                     THEN UpdatePortfolioWithAnalysis(
                              portfolios', stock_names,
                              AnalysisDict([m \in MarketSet |->
                                               IF m = "All" THEN one.result
                                               ELSE <<>>]))
                     ELSE RefreshPortfolioDisplay(portfolios', stock_names)
       ELSE /\ last_op' = "add_stock_to_portfolio"
            /\ last_cfg' = [portfolio_name |-> portfolio_name,
                            stock_code |-> selected_stock]
            /\ raised' = FALSE
            /\ visited' = <<>>
            /\ failed' = <<>>
            /\ results' = <<>>
            /\ portfolio_tree' = RefreshPortfolioDisplay(portfolios',
                                                         stock_names)
            /\ UNCHANGED <<frames, stock_name_cache>>
    /\ UNCHANGED <<dir_files, random_sample, data_dir, stock_data,
                   market_data, is_loaded, trade_date, stock_names,
                   market_files, selected_files, unread, pureVars, load_btn,
                   analyze_btn, update_names_btn, workers, after_queue,
                   tables, exported>>

\* show_context_menu on a row of the watch-list table of portfolio_name
\* and remove_from_portfolio from the menu: the entry is removed from the
\* store and the watch-list tables are filled again without any analysis.
RemoveFromPortfolio(portfolio_name, selected_stock) ==
    /\ handler' = "remove_from_portfolio"
    /\ RemoveStockFromPortfolio(portfolio_name, selected_stock, TRUE)
    /\ portfolio_tree' = RefreshPortfolioDisplay(portfolios', stock_names)
    /\ UNCHANGED <<pureVars, load_btn, analyze_btn, update_names_btn, workers,
                   after_queue, tables, exported>>

UiSpecInit == EngineInit({DetectListing}, {0}) /\ UiInit /\ NoPure

\* What the user left in the buy threshold field and the buy label: a
\* text int() rejects, 0 lots or 50 lots with both criteria enabled, and 0
\* lots with the amount criterion alone.
UiInputs ==
    {<<<<>>, "and">>, <<<<0>>, "and">>, <<<<50>>, "and">>, <<<<0>>, "only">>}

\* The list the context menu adds to and removes from.
UiList == "A"

UiNext ==
    \/ \E chosen \in {"", "deal"} : ClickLoad(chosen)
    \/ \E i \in 1..Len(workers) : LoadThread(i)
    \/ \E input \in UiInputs : ClickAnalyze(input[1], input[2])
    \/ \E i \in 1..Len(workers) : AnalyzeThread(i, TRUE)
    \/ ClickUpdateNames
    \/ \E i \in 1..Len(workers), outcome \in {"ok", "stock_info_a_code_name"} :
          UpdateThread(i, <<[code |-> <<"0","0","0","0","0","1">>,
                             name |-> <<"X","D">>]>>, outcome)
    \/ RunCallback
    \/ \E selected_stock \in tables, input \in UiInputs :
          AddToSpecificPortfolio(UiList, selected_stock, input[1], input[2])
    \/ \E selected_stock \in TreeCodes(UiList) :
          RemoveFromPortfolio(UiList, selected_stock)

SpecUI == UiSpecInit /\ [][UiNext]_vars

\* ------------------------------------------------------------------ claims
\* The segment the prefix rule gives a code, stated rule by rule.
PrefixSegment(code) ==
    CASE StartsWith(code, <<"6", "8">>) -> "STAR"
      [] StartsWith(code, <<"6">>) /\ ~StartsWith(code, <<"6", "8">>) -> "SH"
      [] StartsWith(code, <<"3">>) -> "GEM"
      [] StartsWith(code, <<"0">>) -> "SZ"
      [] OTHER -> "none"

\* The last operation was a load_data that got past the directory checks.
LoadCompleted ==
    last_op = "load_data" /\ data_dir = "deal" /\ Len(dir_files) > 0

IndexedIn(code) == {m \in RealMarkets : code \in Range(market_data[m])}

GroupedIn(f) == {m \in RealMarkets : f \in Range(market_files[m])}

\* C1: once a load has completed, every file of the directory is grouped
\* for sampling under the segment its code's prefix gives ('68' STAR, else
\* '6' SH, else '3' GEM, else '0' SZ) and under no other, and every loaded
\* instrument is indexed under that same segment and no other.
C1_PrefixDecidesSegment ==
    is_loaded =>
       /\ \A f \in Range(dir_files) :
             GroupedIn(f) = {PrefixSegment(StockCodeOf(f))} \ {"none"}
       /\ \A code \in Range(stock_data) :
             IndexedIn(code) = {PrefixSegment(code)} \ {"none"}
       /\ \A f \in Range(dir_files) :
             StockCodeOf(f) \in Range(stock_data) =>
                GroupedIn(f) = IndexedIn(StockCodeOf(f))

\* A STAR code and a Shanghai main-board code are both grouped and indexed.
C1_Witness ==
    /\ is_loaded
    /\ FileSTAR \in Range(market_files["STAR"])
    /\ StockCodeOf(FileSTAR) \in Range(market_data["STAR"])
    /\ FileSH \in Range(market_files["SH"])
    /\ StockCodeOf(FileSH) \in Range(market_data["SH"])

\* C2 as stated: after a completed load every instrument of stock_data and
\* of "All" is in exactly one real-segment index, every instrument of a
\* real-segment index is in "All", and a code that matches no prefix rule
\* is not loaded.
C2_ExactlyOneSegment ==
    LoadCompleted =>
       /\ \A code \in Range(stock_data) \cup Range(market_data["All"]) :
             /\ Cardinality(IndexedIn(code)) = 1
             /\ PrefixSegment(code) # "none"
       /\ \A m \in RealMarkets :
             Range(market_data[m]) \subseteq Range(market_data["All"])

\* The files of the last load that were read and have the three columns.
Storable(files) ==
    {f \in Range(files) : f \notin unread /\ AllCols \subseteq f.cols}

\* C2 amended: after a completed load stock_data and "All" hold the same
\* instruments, every instrument of a real-segment index is in "All", and
\* an instrument of "All" is in the one real-segment index of its prefix, or
\* in none when its code matches no prefix rule; such a code is loaded (into
\* stock_data and "All" only) by a full load and not loaded by a sampled
\* load.
C2_AtMostOneSegment ==
    LoadCompleted =>
       /\ stock_data = market_data["All"]
       /\ \A m \in RealMarkets :
             Range(market_data[m]) \subseteq Range(market_data["All"])
       /\ \A code \in Range(market_data["All"]) :
             IndexedIn(code) = {PrefixSegment(code)} \ {"none"}
       /\ random_sample > 0 =>
             \A code \in Range(stock_data) : PrefixSegment(code) # "none"
       /\ random_sample = 0 =>
             \A f \in Storable(dir_files) :
                StockCodeOf(f) \in Range(market_data["All"])

\* A full load has stored a code without segment next to one with a segment.
C2_Witness ==
    /\ LoadCompleted
    /\ StockCodeOf(FileBSE) \in Range(market_data["All"])
    /\ IndexedIn(StockCodeOf(FileBSE)) = {}
    /\ \E code \in Range(market_data["All"]) : IndexedIn(code) # {}

HasMsg(kind) == \E i \in 1..Len(msgs) : msgs[i].kind = kind

\* C5 as stated: a load_data on a missing directory or on one without CSV
\* file reports the error and leaves the engine with no instrument in any
\* index and not loaded.
C5_FailedLoadLeavesNothing ==
    (last_op = "load_data" /\ ~LoadCompleted) =>
       /\ HasMsg("error_no_directory") \/ HasMsg("error_no_csv")
       /\ stock_data = <<>>
       /\ \A m \in MarketSet : market_data[m] = <<>>
       /\ ~is_loaded

\* The positions of msgs that hold a message about file i of the selection.
ProgressAt(i) ==
    {j \in 1..Len(msgs) : msgs[j] = Msg("progress", StockCodeOf(selected_files[i]),
                                        i, Len(selected_files))}

\* The codes of the files of `files` that are in S, in the order of `files`.
RECURSIVE CodesIn(_, _)
CodesIn(files, S) ==
    IF Len(files) = 0 THEN <<>>
    ELSE (IF files[1] \in S THEN <<StockCodeOf(files[1])>> ELSE <<>>)
         \o CodesIn(Tail(files), S)

\* C7: after a load that got past the directory checks, whatever files
\* could not be read, the engine is loaded, every selected file was taken
\* up in order (one progress message each, in the order of the selection),
\* each unreadable one is reported right after its progress message, and
\* the index holds exactly the selected files that were read and have the
\* required columns, in the order of the selection.
C7_FailedFileIsSkipped ==
    LoadCompleted =>
       /\ is_loaded
       /\ msgs[Len(msgs)].kind = "done"
       /\ \A i \in 1..Len(selected_files) : Cardinality(ProgressAt(i)) = 1
       /\ \A i, k \in 1..Len(selected_files) :
             i < k => \A a \in ProgressAt(i), b \in ProgressAt(k) : a < b
       /\ \A i \in 1..Len(selected_files) :
             selected_files[i] \in unread <=>
                \E j \in ProgressAt(i) :
                   msgs[j + 1] = Msg("file_error", StockCodeOf(selected_files[i]), 0, 0)
       /\ stock_data = CodesIn(selected_files, Storable(selected_files))
       /\ market_data["All"] = stock_data

\* A file could not be read and a file selected after it was stored.
C7_Witness ==
    /\ LoadCompleted
    /\ \E i, k \in 1..Len(selected_files) :
          /\ i < k
          /\ selected_files[i] \in unread
          /\ StockCodeOf(selected_files[k]) \in Range(stock_data)

\* The qualification rule as the claims state it: lots and yuan of a row
\* against the two thresholds of its side, combined by the logic label.
ClaimedPredicate(logic, lots_ok, amount_ok) ==
    \/ logic = "and" /\ lots_ok /\ amount_ok
    \/ logic = "or" /\ (lots_ok \/ amount_ok)
    \/ logic = "ignore" /\ lots_ok
    \/ logic = "only" /\ amount_ok

ClaimedBigBuy(row, cfg) ==
    /\ row.Side = ActiveBuy
    /\ ClaimedPredicate(cfg.buy_logic,
                        row.Volume >= 100 * cfg.buy_threshold,
                        row.Price * row.Volume >= 100 * cfg.buy_amount_threshold)

ClaimedBigSell(row, cfg) ==
    /\ row.Side = ActiveSell
    /\ ClaimedPredicate(cfg.sell_logic,
                        row.Volume >= 100 * cfg.sell_threshold,
                        row.Price * row.Volume >= 100 * cfg.sell_amount_threshold)

ClaimedBuys(code, cfg) ==
    SelectSeq(frames[code].rows, LAMBDA r : ClaimedBigBuy(r, cfg))

ClaimedSells(code, cfg) ==
    SelectSeq(frames[code].rows, LAMBDA r : ClaimedBigSell(r, cfg))

\* The last operation was analyze_single_stock on a loaded instrument and
\* returned.
SingleReturned ==
    /\ last_op = "analyze_single_stock"
    /\ ~raised
    /\ visited[1][2] \in Range(stock_data)

\* C3: analyze_single_stock under a recognised buy label takes as big buys
\* exactly the rows with side 0 that satisfy the label's combination of
\* lots >= buy threshold and amount >= buy amount threshold (inclusive),
\* whatever the sell settings are, and symmetrically for the sells with side
\* 1 and the sell settings.
C3_QualificationRule ==
    SingleReturned =>
       LET code == visited[1][2]
           buys == ClaimedBuys(code, last_cfg)
           sells == ClaimedSells(code, last_cfg)
       IN IF results = NoResult
          THEN /\ last_cfg.buy_logic \in KnownLogics => buys = <<>>
               /\ last_cfg.sell_logic \in KnownLogics => sells = <<>>
          ELSE /\ last_cfg.buy_logic \in KnownLogics =>
                     /\ results[1].big_trades.buys = buys
                     /\ results[1].buy_count = Len(buys)
               /\ last_cfg.sell_logic \in KnownLogics =>
                     /\ results[1].big_trades.sells = sells
                     /\ results[1].sell_count = Len(sells)

\* Under "ignore" a buy of exactly the threshold (50 lots) is a big buy and
\* a buy of 49.99 lots in the same table is not, while under the sell
\* settings ("and") a sell of exactly 60 lots and 48000 yuan is left out.
C3_Witness ==
    /\ SingleReturned
    /\ results # NoResult
    /\ last_cfg.buy_logic = "ignore"
    /\ last_cfg.sell_logic = "and"
    /\ \E i \in 1..Len(results[1].big_trades.buys) :
          results[1].big_trades.buys[i].Volume_Hand = 100 * last_cfg.buy_threshold
    /\ \E i \in 1..Len(frames[visited[1][2]].rows) :
          LET r == frames[visited[1][2]].rows[i]
          IN r.Side = ActiveBuy /\ r.Volume_Hand = 100 * last_cfg.buy_threshold - 1
    /\ \E i \in 1..Len(frames[visited[1][2]].rows) :
          LET r == frames[visited[1][2]].rows[i]
          IN /\ r.Side = ActiveSell
             /\ r.Volume_Hand = 100 * last_cfg.sell_threshold
             /\ \A k \in 1..Len(results[1].big_trades.sells) :
                   results[1].big_trades.sells[k] # r

\* C4 as stated: analyze_big_trades called on an engine that is not loaded
\* ends with an error, analyses nothing and returns no result set.
C4_AnalyzeNeedsLoaded ==
    (last_op = "analyze_big_trades" /\ ~is_loaded) =>
       /\ raised
       /\ visited = <<>>
       /\ results = <<>>

\* C6 as stated: when the analysis of an instrument fails inside
\* analyze_big_trades, the call still analyses every instrument of every
\* market and returns a list for every market.
C6_FailureDoesNotAbort ==
    (last_op = "analyze_big_trades" /\ failed # <<>>) =>
       /\ ~raised
       /\ Len(visited) = TotalStocks(market_data)
       /\ DOMAIN results = MarketSet

BatchReturned == last_op = "analyze_big_trades" /\ ~raised

\* C8: in every list analyze_big_trades returns, each summary's
\* (buy lots, sell lots) is lexicographically not less than the next one's.
C8_RankedDescending ==
    BatchReturned =>
       \A m \in MarketSet : \A i \in 1..(Len(results[m]) - 1) :
          LET a == results[m][i]
              b == results[m][i + 1]
          IN \/ a.buy_lots > b.buy_lots
             \/ a.buy_lots = b.buy_lots /\ a.sell_lots >= b.sell_lots

Position(seq, x) == CHOOSE i \in 1..Len(seq) : seq[i] = x

\* Two summaries tie on the buy lots, differ in the sell lots, and stand in
\* the list in the opposite order of their tables in the index.
C8_Witness ==
    /\ BatchReturned
    /\ \E m \in MarketSet : \E i \in 1..(Len(results[m]) - 1) :
          LET a == results[m][i]
              b == results[m][i + 1]
          IN /\ a.buy_lots = b.buy_lots
             /\ a.buy_lots > 0
             /\ a.sell_lots > b.sell_lots
             /\ Position(market_data[m], a.code) > Position(market_data[m], b.code)

ResultCodes(m) == {results[m][i].code : i \in 1..Len(results[m])}

\* The loaded instruments with at least one big buy or big sell by the rule
\* of the claims.
ClaimedQualifying(cfg) ==
    {code \in Range(stock_data) :
        ClaimedBuys(code, cfg) # <<>> \/ ClaimedSells(code, cfg) # <<>>}

Rows(code) == {frames[code].rows[i] : i \in 1..Len(frames[code].rows)}

\* Both thresholds of both sides lie above every row of every loaded table.
ThresholdsExceedAll(cfg) ==
    \A code \in Range(stock_data) : \A r \in Rows(code) :
       /\ r.Volume < 100 * cfg.buy_threshold
       /\ r.Volume < 100 * cfg.sell_threshold
       /\ r.Price * r.Volume < 100 * cfg.buy_amount_threshold
       /\ r.Price * r.Volume < 100 * cfg.sell_amount_threshold

\* C9: under the four recognised labels, an instrument without big buy and
\* without big sell is in no list analyze_big_trades returns, and when the
\* thresholds exceed every row of every loaded table the call returns, with
\* no exception, an empty list for every market.
C9_NoTradesNoSummary ==
    (last_op = "analyze_big_trades" /\ last_cfg.buy_logic \in KnownLogics
        /\ last_cfg.sell_logic \in KnownLogics) =>
       /\ ~raised =>
             \A m \in MarketSet :
                ResultCodes(m) \cap (Range(stock_data) \ ClaimedQualifying(last_cfg)) = {}
       /\ ThresholdsExceedAll(last_cfg) =>
             /\ ~raised
             /\ DOMAIN results = MarketSet
             /\ \A m \in MarketSet : results[m] = <<>>

\* Tables are loaded, the thresholds exceed all their rows, and the store
\* cannot be reached (which does not matter, as no name is looked up).
C9_Witness ==
    /\ last_op = "analyze_big_trades"
    /\ Len(stock_data) >= 2
    /\ ThresholdsExceedAll(last_cfg)
    /\ Len(visited) = 2 * Len(stock_data)
    /\ \A m \in MarketSet : results[m] = <<>>

\* C10: in what analyze_big_trades returns, the "All" list holds one summary
\* for each loaded instrument with a big buy or a big sell and no other,
\* each real segment's list holds those of them whose code has that
\* segment's prefix, and the summary of an instrument in its segment's list
\* equals its summary in the "All" list.
C10_SegmentListsPartitionAll ==
    (BatchReturned /\ last_cfg.buy_logic \in KnownLogics
        /\ last_cfg.sell_logic \in KnownLogics) =>
       /\ ResultCodes("All") = ClaimedQualifying(last_cfg)
       /\ \A m \in MarketSet : Cardinality(ResultCodes(m)) = Len(results[m])
       /\ \A m \in RealMarkets :
             /\ ResultCodes(m) =
                   {code \in ClaimedQualifying(last_cfg) : PrefixSegment(code) = m}
             /\ \A i \in 1..Len(results[m]) :
                   \E k \in 1..Len(results["All"]) :
                      results["All"][k] = results[m][i]

\* The "All" list holds instruments of two segments and one without
\* segment.
C10_Witness ==
    /\ BatchReturned
    /\ \E m1, m2 \in RealMarkets :
          m1 # m2 /\ results[m1] # <<>> /\ results[m2] # <<>>
    /\ \E code \in ResultCodes("All") : PrefixSegment(code) = "none"

\* C11: for every sample size above 0 the main-board quota is
\* floor(target * 0.5), the GEM and STAR quotas are floor(target * 0.25)
\* each, the SH quota is floor(main-board quota * |SH| / (|SH| + |SZ|)) and
\* the SZ quota is the remainder, so that the two add up to the main-board
\* quota (stated for the populations with a main-board file, where the
\* quotient is defined).
C11_QuotasFollowTheRatios ==
    quota.stage = "out" /\ quota.sh + quota.sz > 0 =>
        /\ 2 * quota.mainboard_count <= random_sample
        /\ random_sample < 2 * (quota.mainboard_count + 1)
        /\ 4 * quota.gem_count <= random_sample
        /\ random_sample < 4 * (quota.gem_count + 1)
        /\ quota.star_count = quota.gem_count
        /\ quota.sh_mainboard_count * (quota.sh + quota.sz)
               <= quota.mainboard_count * quota.sh
        /\ quota.mainboard_count * quota.sh
               < (quota.sh_mainboard_count + 1) * (quota.sh + quota.sz)
        /\ quota.sh_mainboard_count + quota.sz_mainboard_count
               = quota.mainboard_count

\* The quota load_data computes for segment m from random_sample and the
\* grouped files.
SegmentQuota(m) ==
    LET mc == MainboardCount(random_sample)
        sh == Len(market_files["SH"])
        sz == Len(market_files["SZ"])
    IN CASE m = "SH" -> ShMainboardCount(mc, sh, sz)
         [] m = "SZ" -> SzMainboardCount(mc, sh, sz)
         [] m = "GEM" -> GemCount(random_sample)
         [] m = "STAR" -> StarCount(random_sample)

\* The positions of selected_files that hold a file of segment m.
SelectedFrom(m) ==
    {i \in 1..Len(selected_files) :
        selected_files[i] \in Range(market_files[m])}

\* C12: after a sampled load every segment contributes exactly
\* min(quota, population) files, all from its own list, no file is selected
\* twice, and at most random_sample files are selected.
C12_SelectionWithinQuotas ==
    (LoadCompleted /\ random_sample > 0) =>
       /\ \A m \in RealMarkets :
             Cardinality(SelectedFrom(m)) =
                IF SegmentQuota(m) < Len(market_files[m])
                THEN SegmentQuota(m) ELSE Len(market_files[m])
       /\ \A i \in 1..Len(selected_files) :
             \E m \in RealMarkets : i \in SelectedFrom(m)
       /\ \A i, k \in 1..Len(selected_files) :
             i # k => selected_files[i] # selected_files[k]
       /\ Len(selected_files) <= random_sample

\* A sampled load where one segment has fewer files than its quota, another
\* segment contributes, and fewer files than random_sample are selected.
C12_Witness ==
    /\ LoadCompleted
    /\ random_sample > 0
    /\ \E m, o \in RealMarkets :
          /\ m # o
          /\ 0 < Len(market_files[m])
          /\ Len(market_files[m]) < SegmentQuota(m)
          /\ SelectedFrom(m) # {}
          /\ SelectedFrom(o) # {}
    /\ Len(selected_files) < random_sample

\* C13: with sample size 0 a load selects the directory's CSV files as they
\* are listed: none dropped, none added, none reordered.
C13_FullLoadSelectsAll ==
    (LoadCompleted /\ random_sample = 0) => selected_files = dir_files

\* A full load of a listing that holds a file without segment and lists a
\* GEM file before a Shanghai one.
C13_Witness ==
    /\ LoadCompleted
    /\ random_sample = 0
    /\ selected_files = dir_files
    /\ FileBSE \in Range(dir_files)
    /\ \E i, k \in 1..Len(dir_files) :
          /\ i < k
          /\ GroupSegment(StockCodeOf(dir_files[i])) = "GEM"
          /\ GroupSegment(StockCodeOf(dir_files[k])) = "SH"

\* A message that reports progress, and the percentage it shows, in tenths.
IsProgress(m) == m.kind \in {"progress", "analyzing"}

ReportedTenths(m) == FormatTenths(ProgressOf(m.a, m.b))

\* Positions j < k of msgs hold progress reports with none in between.
Consecutive(j, k) ==
    /\ j < k
    /\ IsProgress(msgs[j])
    /\ IsProgress(msgs[k])
    /\ \A i \in (j + 1)..(k - 1) : ~IsProgress(msgs[i])

\* Position j holds the last progress report of msgs.
LastReport(j) ==
    IsProgress(msgs[j]) /\ \A i \in (j + 1)..Len(msgs) : ~IsProgress(msgs[i])

\* msgs holds the reports of a whole pass: a load that got past the
\* directory checks, an analysis, or the progress loop after its last turn.
PassOver ==
    \/ LoadCompleted
    \/ last_op = "analyze_big_trades"
    \/ tally.stage = "pass" /\ tally.processed = tally.total

UpdateSucceeded == last_op = "update_stock_names" /\ returned = <<TRUE>>

\* C16: after update_stock_names succeeds the stock_names table holds exactly
\* the code-to-name mapping of the source (codes cut to 6 characters) and no
\* other row, the cache equals the table, and get_stock_name returns the
\* code itself for every code that is not in the new mapping.
C16_RefreshReplacesTableAndCache ==
    UpdateSucceeded =>
       /\ stock_names = InsertOrReplace(StocksOf(last_cfg.stock_info))
       /\ stock_name_cache = stock_names
       /\ \A code \in LookupCodes :
             Last6(code) \notin DOMAIN stock_names =>
                GetStockName(stock_name_cache, stock_names, TRUE, code).name
                    = Last6(code)

\* C17: a failed update_stock_names, where the source or a statement before
\* the commit raised, returns False, reports the failure and leaves the
\* stock_names table and the cache as they were before the call.
C17_FailedRefreshChangesNothing ==
    [][(/\ last_op' = "update_stock_names"
        /\ failed' # <<>>
        /\ failed'[1][2] \in {"stock_info_a_code_name", "executemany"})
       => /\ returned' = <<FALSE>>
          /\ msgs'[Len(msgs')].kind = "update_failed"
          /\ stock_names' = stock_names
          /\ stock_name_cache' = stock_name_cache]_vars

\* A refresh failed at the bulk insert, after the DELETE, with rows in the
\* table and in the cache.
C17_Witness ==
    /\ last_op = "update_stock_names"
    /\ failed = << <<"update_stock_names", "executemany">> >>
    /\ returned = <<FALSE>>
    /\ DOMAIN stock_names # {}
    /\ DOMAIN stock_name_cache # {}

\* C18: get_stock_name cuts the code to its last 6 characters; a cached code
\* gives the cached name without the table being asked (so also when the
\* store cannot be reached); otherwise a code of the table gives the
\* table's name, which is added to the cache; otherwise the cut code itself
\* is returned and the cache is left as it was.
C18_CacheThenTableThenCode ==
    [][last_op' = "get_stock_name" =>
         LET code == Last6(last_cfg'.stock_code)
         IN IF code \in DOMAIN stock_name_cache
            THEN /\ ~raised'
                 /\ returned' = <<stock_name_cache[code]>>
                 /\ stock_name_cache' = stock_name_cache
            ELSE ~raised' =>
                    IF code \in DOMAIN stock_names
                    THEN /\ returned' = <<stock_names[code]>>
                         /\ DOMAIN stock_name_cache'
                                = DOMAIN stock_name_cache \cup {code}
                         /\ \A c \in DOMAIN stock_name_cache' :
                               stock_name_cache'[c] =
                                  IF c = code THEN stock_names[code]
                                  ELSE stock_name_cache[c]
                    ELSE /\ returned' = <<code>>
                         /\ stock_name_cache' = stock_name_cache]_vars

\* A look-up with a code of more than 6 characters found a cached name that
\* differs from the name of the table.
C18_Witness ==
    /\ last_op = "get_stock_name"
    /\ Len(last_cfg.stock_code) > 6
    /\ ~raised
    /\ Last6(last_cfg.stock_code) \in DOMAIN stock_names
    /\ returned # <<stock_names[Last6(last_cfg.stock_code)]>>

\* The codes a table of the store holds for a list.
EntriesOf(table, portfolio_name) ==
    {table[i].stock_code : i \in {j \in 1..Len(table) :
                                     table[j].portfolio_name = portfolio_name}}

\* The last operation was an import_portfolio that returned success.
ImportSucceeded == last_op = "import_portfolio" /\ returned[1]

\* C19: after a successful import_portfolio the entries of the list are
\* exactly the codes parsed from the file and nothing that was there before
\* remains (no valid code: the list is empty); no other connection sees the
\* list in between, with the old entries deleted and the new ones missing;
\* the other lists are left alone.
C19_ImportReplacesList ==
    ImportSucceeded =>
       LET list == last_cfg.portfolio_name
           parsed == Range(last_cfg.stock_codes)
           before == store_seen[1]
       IN /\ EntriesOf(portfolios, list) = parsed
          /\ \A i \in 1..Len(store_seen) :
                EntriesOf(store_seen[i], list)
                    \in {EntriesOf(before, list), parsed}
          /\ \A other \in PortfolioNames \ {list} :
                EntriesOf(portfolios, other) = EntriesOf(before, other)

\* An import replaced a list that held a code the file does not have by a
\* code the list did not hold.
C19_Witness ==
    /\ ImportSucceeded
    /\ EntriesOf(store_seen[1], last_cfg.portfolio_name)
           \ Range(last_cfg.stock_codes) # {}
    /\ EntriesOf(portfolios, last_cfg.portfolio_name)
           \ EntriesOf(store_seen[1], last_cfg.portfolio_name) # {}

\* C20: the store holds each (list, code) pair at most once after every
\* add, remove and import; add_stock_to_portfolio for a pair that is present
\* returns success and leaves the store as it was, and after a successful
\* add the pair is there exactly once.
C20_PairsUniqueAddIdempotent ==
    [][/\ \A i, j \in 1..Len(portfolios') :
             portfolios'[i] = portfolios'[j] => i = j
       /\ (last_op' = "add_stock_to_portfolio" /\ returned'[1]) =>
             LET row == Entry(last_cfg'.portfolio_name,
                            Last6(last_cfg'.stock_code))
             IN /\ Cardinality({i \in 1..Len(portfolios') :
                                   portfolios'[i] = row}) = 1
                /\ row \in Range(portfolios) => portfolios' = portfolios
       /\ (last_op' = "add_stock_to_portfolio"
              /\ Entry(last_cfg'.portfolio_name, Last6(last_cfg'.stock_code))
                    \in Range(portfolios)
              /\ store_seen' # <<portfolios>>) => returned'[1]]_vars

\* The same pair was added twice in a row, the second time under a longer
\* spelling of the code.
C20_Witness ==
    /\ last_op = "add_stock_to_portfolio"
    /\ returned[1]
    /\ Len(last_cfg.stock_code) > 6
    /\ store_seen = <<portfolios, portfolios>>
    /\ Len(portfolios) > 1

\* A worker thread of the kind is in flight.
InFlight(kind) == \E i \in 1..Len(workers) : workers[i].kind = kind

\* C14: while a load or analysis worker is in flight no worker is started
\* (no second load, no analysis, no name refresh) and no instrument is
\* analysed on the UI thread from the context menu; while a name refresh is
\* in flight no analysis is started, on a worker or on the UI thread.
C14_OneActivityAtATime ==
    [][/\ (InFlight("load") \/ InFlight("analyze")) =>
             /\ Len(workers') <= Len(workers)
             /\ ~(handler' = "add_to_specific_portfolio" /\ is_loaded)
       /\ InFlight("update") =>
             /\ ~(/\ Len(workers') > Len(workers)
                  /\ workers'[Len(workers')].kind = "analyze")
             /\ ~(handler' = "add_to_specific_portfolio" /\ is_loaded)]_vars

\* The selected files of the last load that were read and lack one of the
\* three columns.
LackingColumns ==
    {i \in 1..Len(selected_files) :
        /\ selected_files[i] \notin unread
        /\ ~(AllCols \subseteq selected_files[i].cols)}

\* C26: a selected file that lacks one of Price, Volume, Side is loaded into
\* no index, the files after it are still loaded, and the skip is reported
\* through the progress callback.
C26_MissingColumnsSkippedAndReported ==
    LoadCompleted =>
       \A i \in LackingColumns :
          LET stock_code == StockCodeOf(selected_files[i])
          IN /\ stock_code \notin Range(stock_data)
             /\ \A m \in MarketSet : stock_code \notin Range(market_data[m])
             /\ \A k \in (i + 1)..Len(selected_files) :
                   selected_files[k] \in Storable(selected_files) =>
                      StockCodeOf(selected_files[k]) \in Range(stock_data)
             /\ \E j \in 1..Len(msgs) :
                   msgs[j].kind # "progress" /\ msgs[j].code = stock_code

\* The rows of file f whose fields all parse, in the order of the file.
ParseableRows(f) ==
    LET good == {i \in 1..Len(f.rows) : \A p \in f.unparseable : p[1] # i}
        RECURSIVE Take(_)
        Take(i) == IF i > Len(f.rows) THEN <<>>
                   ELSE (IF i \in good THEN <<f.rows[i]>> ELSE <<>>) \o Take(i + 1)
    IN Take(1)

\* C27: a file with a row whose numeric field does not parse loses only that
\* row: the instrument is in the index with all the other rows of the file.
C27_OnlyTheBadRowIsDropped ==
    LoadCompleted =>
       \A f \in Range(selected_files) :
          (f \notin unread /\ AllCols \subseteq f.cols /\ f.unparseable # {}) =>
             /\ StockCodeOf(f) \in Range(stock_data)
             /\ StockCodeOf(f) \in Range(market_data["All"])
             /\ frames[StockCodeOf(f)].rows
                   = LoadedFrame([f EXCEPT !.rows = ParseableRows(f)]).rows

ActiveSide(code, side) ==
    SelectSeq(frames[code].rows, LAMBDA r : r.Side = side)

\* C29: analyze_single_stock with a logic label that is none of the four
\* applies no lots or amount constraint on that side: every row of the
\* table with the side's active flag is a big trade of that side, and the
\* call returns no summary only when the table has no such row.
C29_UnrecognisedLabelTakesWholeSide ==
    SingleReturned =>
       LET code == visited[1][2]
       IN /\ last_cfg.buy_logic \notin KnownLogics =>
                IF results = NoResult
                THEN ActiveSide(code, ActiveBuy) = <<>>
                ELSE /\ results[1].big_trades.buys = ActiveSide(code, ActiveBuy)
                     /\ results[1].buy_count = Len(ActiveSide(code, ActiveBuy))
          /\ last_cfg.sell_logic \notin KnownLogics =>
                IF results = NoResult
                THEN ActiveSide(code, ActiveSell) = <<>>
                ELSE /\ results[1].big_trades.sells = ActiveSide(code, ActiveSell)
                     /\ results[1].sell_count = Len(ActiveSide(code, ActiveSell))

\* A call with the buy label "other" returned a big buy that is below both
\* buy thresholds.
C29_Witness ==
    /\ SingleReturned
    /\ results # NoResult
    /\ last_cfg.buy_logic \notin KnownLogics
    /\ \E i \in 1..Len(results[1].big_trades.buys) :
          LET r == results[1].big_trades.buys[i]
          IN /\ r.Volume_Hand < 100 * last_cfg.buy_threshold
             /\ r.Amount < 100 * last_cfg.buy_amount_threshold

\* C25 as stated: an analysis does not modify the loaded tables: after
\* analyze_big_trades or analyze_single_stock every table of the index has
\* the rows, columns and values it had before the call.
C25_AnalysisLeavesTablesUnchanged ==
    [][last_op' \in {"analyze_big_trades", "analyze_single_stock"}
          => frames' = frames]_vars

AllDigits(s) ==
    \A i \in 1..Len(s) :
       s[i] \in {"0", "1", "2", "3", "4", "5", "6", "7", "8", "9"}

\* C22 as stated: every code an import_portfolio stores consists only of
\* digits: the codes parsed from the file, and so the entries of the list
\* after a successful import.
C22_StoredCodesAreAllNumeric ==
    ImportSucceeded =>
       /\ \A i \in 1..Len(last_cfg.stock_codes) :
             AllDigits(last_cfg.stock_codes[i])
       /\ \A stock_code \in EntriesOf(portfolios, last_cfg.portfolio_name) :
             AllDigits(stock_code)

\* The first tab-separated field of a line of a file, the line end left out.
FirstField(line) ==
    LET ends == {i \in 1..Len(line) : line[i] \in {"\t", "\n"}}
    IN IF ends = {} THEN line
       ELSE SubSeq(line, 1, (CHOOSE i \in ends : \A j \in ends : i <= j) - 1)

\* The first column of a written file, its header line excluded.
FirstColumn(file) ==
    {FirstField(file.lines[i]) : i \in 2..Len(file.lines)}

\* C21 as stated: an export_portfolio that follows a successful
\* import_portfolio of the same list at once writes a file whose first
\* column, header excluded, is the set of codes parsed from the imported
\* file, and importing the written file again leaves the list as it is.
C21_ImportExportRoundTrip ==
    [][(/\ last_op = "import_portfolio"
        /\ returned[1]
        /\ last_op' = "export_portfolio"
        /\ last_cfg'.portfolio_name = last_cfg.portfolio_name
        /\ last_cfg'.file_ext # <<>>)
       => /\ exported' # <<>>
          /\ FirstColumn(exported'[1]) = Range(last_cfg.stock_codes)
          /\ LowerExt(exported'[1].ext) = <<".","x","l","s">>
                => Range(ParseCodes(exported'[1].lines))
                      = EntriesOf(portfolios, last_cfg.portfolio_name)]_vars

\* The same round trip for a list that has entries and whose codes are
\* digits only.
C21_RoundTripOfDigitCodes ==
    [][(/\ last_op = "import_portfolio"
        /\ returned[1]
        /\ last_cfg.stock_codes # <<>>
        /\ \A i \in 1..Len(last_cfg.stock_codes) :
              AllDigits(last_cfg.stock_codes[i])
        /\ last_op' = "export_portfolio"
        /\ last_cfg'.portfolio_name = last_cfg.portfolio_name
        /\ last_cfg'.file_ext # <<>>)
       => /\ exported' # <<>>
          /\ FirstColumn(exported'[1]) = Range(last_cfg.stock_codes)
          /\ LowerExt(exported'[1].ext) = <<".","x","l","s">>
                => Range(ParseCodes(exported'[1].lines))
                      = EntriesOf(portfolios, last_cfg.portfolio_name)]_vars

\* C30: an import_portfolio that fails (the extension is not .xls, the file
\* cannot be opened or decoded, or the store raises before the commit)
\* returns (False, message), leaves table portfolios as it was, and no
\* other connection could read anything else while it ran.
C30_FailedImportChangesNothing ==
    [][last_op' = "import_portfolio"
          => /\ returned'[1] \in BOOLEAN
             /\ ~returned'[1] =>
                   /\ Len(returned') = 2
                   /\ returned'[2] \in {"xls_only", "unknown_encoding",
                                         "import_failed"}
                   /\ portfolios' = portfolios
                   /\ store_seen' = <<portfolios>>]_vars

\* An import failed at the store after its DELETE: the list still has its
\* entries, none of which is a code of the file.
C30_Witness ==
    /\ last_op = "import_portfolio"
    /\ returned = <<FALSE, "import_failed">>
    /\ last_cfg.stock_codes # <<>>
    /\ EntriesOf(portfolios, last_cfg.portfolio_name) # {}
    /\ Range(last_cfg.stock_codes)
          \cap EntriesOf(portfolios, last_cfg.portfolio_name) = {}

\* The rows of one list, in the order of the table.
RowsOf(table, portfolio_name) ==
    SelectSeq(table, LAMBDA row : row.portfolio_name = portfolio_name)

\* C23: add_stock_to_portfolio, remove_stock_from_portfolio and
\* import_portfolio applied to a list leave the rows of every other list
\* and table stock_names as they were, in what they commit and in what
\* other connections could read while they ran.
C23_OtherListsAndNamesUntouched ==
    [][last_op' \in {"add_stock_to_portfolio", "remove_stock_from_portfolio",
                     "import_portfolio"}
          => /\ stock_names' = stock_names
             /\ \A portfolio_name \in
                      PortfolioNames \ {last_cfg'.portfolio_name} :
                   /\ RowsOf(portfolios', portfolio_name)
                         = RowsOf(portfolios, portfolio_name)
                   /\ \A i \in 1..Len(store_seen') :
                         RowsOf(store_seen'[i], portfolio_name)
                            = RowsOf(portfolios, portfolio_name)]_vars

\* A code that two lists held was removed from one of them and is still in
\* the other.
C23_Witness ==
    /\ last_op = "remove_stock_from_portfolio"
    /\ returned[1]
    /\ Last6(last_cfg.stock_code)
          \in EntriesOf(store_seen[1], last_cfg.portfolio_name)
    /\ Last6(last_cfg.stock_code)
          \notin EntriesOf(portfolios, last_cfg.portfolio_name)
    /\ \E portfolio_name \in PortfolioNames \ {last_cfg.portfolio_name} :
          Last6(last_cfg.stock_code) \in EntriesOf(portfolios, portfolio_name)

\* A configuration the claims call valid: the lots threshold of a side is
\* within 1..20000 unless the side's label is the amount alone.
ValidConfig(cfg) ==
    /\ cfg.buy_logic # "only" =>
          cfg.buy_threshold >= 1 /\ cfg.buy_threshold <= 20000
    /\ cfg.sell_logic # "only" =>
          cfg.sell_threshold >= 1 /\ cfg.sell_threshold <= 20000

\* C24 as stated: the detector never runs with an invalid configuration,
\* neither in the full analysis started by analyze_data nor in the
\* analysis of one instrument that add_to_specific_portfolio starts.
C24_DetectorNeverRunsInvalid ==
    (/\ handler \in {"analyze_thread", "add_to_specific_portfolio"}
     /\ last_op \in {"analyze_big_trades", "analyze_single_stock"})
       => ValidConfig(last_cfg)

\* Every row of a watch-list table whose code is shown in the market
\* tables, that is, has a summary in the full analysis displayed last,
\* has the columns of a summary.
EnrichedWhereAnalysed ==
    \A portfolio_name \in PortfolioNames :
       \A i \in 1..Len(portfolio_tree[portfolio_name]) :
          portfolio_tree[portfolio_name][i].code \in tables
             => portfolio_tree[portfolio_name][i].analysis # <<>>

\* C28 as stated: when a full analysis has completed, every watch-list
\* entry with a summary in it is displayed with a summary, and adding a
\* code to a watch list or removing one keeps it so.
C28_WatchListsStayEnriched ==
    [][/\ handler' = "on_analyze_complete" => EnrichedWhereAnalysed'
       /\ (/\ handler' \in {"add_to_specific_portfolio",
                              "remove_from_portfolio"}
           /\ EnrichedWhereAnalysed)
             => EnrichedWhereAnalysed']_vars

====
